---- MODULE Spec2Model ----
(***************************************************************************)
(* Model of makeprojects.py: file discovery and classification             *)
(* (scandirectory, getfilelist, pickfromfilelist), the parent-directory    *)
(* computation of extractgroupname, the groups and trees the Visual Studio *)
(* and CodeWarrior generators render, the identifiers, groups, sections,   *)
(* objects and build-phase listings of the Xcode generator, and the        *)
(* command lists main, processdefault and processeverything run.           *)
(*                                                                         *)
(* Python strings are modelled as sequences of one-character strings, so   *)
(* that lower(), endswith(), replace(), rfind(), slicing and the byte-wise *)
(* comparison used by cmp() are computed character by character.           *)
(***************************************************************************)
EXTENDS Integers, Sequences, FiniteSets, TLC

VARIABLES
    fs,                 \* the directory tree below solution.workingDir
    sep,                \* os.sep of the platform the script runs on
    solution,           \* SolutionData: kind, exclude, sourcefolders
    pc,                 \* position of the run
    codefiles,          \* catalog returned by getfilelist
    includedirectories, \* include-directory list returned by getfilelist
    picked,             \* result of pickfromfilelist for each type
    headersphase,       \* files = ( ... ) of the PBXHeadersBuildPhase
    sourcesphase,       \* files = ( ... ) of the PBXSourcesBuildPhase
    name,               \* argument of extractgroupname
    groupname,          \* parent part and result of extractgroupname
    groups,             \* dict of a generator: group name -> file list
    tree,               \* nested dicts of a generator, as the paths of its keys
    walk,               \* the keys the rendering visits, in the order visited
    sections,           \* identifier-keyed sections of project.pbxproj
    seed,               \* which digest stands for MD5 during the run
    final,              \* outcome of converttowindowsslasheswithendslash
    args,               \* the command line: target flags and input files
    filepos,            \* main: the input file being processed
    myjsonlist,         \* processeverything: the command list
    itempos,            \* processeverything: the item being processed
    error,              \* the error code of the run so far
    output              \* what the run reported and generated, in order

\* the variables of main, processdefault and processeverything
runvars == <<args, filepos, myjsonlist, itempos, error, output>>

vars == <<fs, sep, solution, pc, codefiles, includedirectories,
          picked, headersphase, sourcesphase, name, groupname,
          groups, tree, walk, sections, seed, final, runvars>>

(***************************************************************************)
(* Bounds of the model                                                     *)
(***************************************************************************)
MaxChildren == 2        \* files, links and directories put into the tree
MaxFolders == 2         \* length of solution.sourcefolders
MaxExclude == 1         \* length of solution.exclude
MaxPathLen == 5         \* length of the argument of extractgroupname
MaxGroupFolders == 2    \* source folders that hold the files of a catalog
MaxItems == 3           \* items in the command lists of an invocation

(***************************************************************************)
(* Characters and strings                                                  *)
(***************************************************************************)
LowerAlpha ==
    <<"a","b","c","d","e","f","g","h","i","j","k","l","m",
      "n","o","p","q","r","s","t","u","v","w","x","y","z">>

UpperAlpha ==
    <<"A","B","C","D","E","F","G","H","I","J","K","L","M",
      "N","O","P","Q","R","S","T","U","V","W","X","Y","Z">>

Digits == <<"0","1","2","3","4","5","6","7","8","9">>

Punctuation == {"!", ".", "/", ":", "\\"}

Chars == {LowerAlpha[i] : i \in 1..26} \cup {UpperAlpha[i] : i \in 1..26}
            \cup {Digits[i] : i \in 1..10} \cup Punctuation

\* ord(c): the byte value that Python 2's string comparison compares
CharCodeTable ==
    [c \in Chars |->
        IF \E i \in 1..26 : LowerAlpha[i] = c
        THEN 96 + (CHOOSE i \in 1..26 : LowerAlpha[i] = c)
        ELSE IF \E i \in 1..26 : UpperAlpha[i] = c
        THEN 64 + (CHOOSE i \in 1..26 : UpperAlpha[i] = c)
        ELSE IF \E i \in 1..10 : Digits[i] = c
        THEN 47 + (CHOOSE i \in 1..10 : Digits[i] = c)
        ELSE CASE c = "!"  -> 33
               [] c = "."  -> 46
               [] c = "/"  -> 47
               [] c = ":"  -> 58
               [] c = "\\" -> 92]

CharCode(c) == CharCodeTable[c]

\* str.lower() on one character
LowerTable ==
    [c \in Chars |->
        IF \E i \in 1..26 : UpperAlpha[i] = c
        THEN LowerAlpha[CHOOSE i \in 1..26 : UpperAlpha[i] = c]
        ELSE c]

lowerchar(c) == LowerTable[c]

\* str.lower()
lower(s) == [i \in 1..Len(s) |-> lowerchar(s[i])]

\* str.upper() on one character
UpperTable ==
    [c \in Chars |->
        IF \E i \in 1..26 : LowerAlpha[i] = c
        THEN UpperAlpha[CHOOSE i \in 1..26 : LowerAlpha[i] = c]
        ELSE c]

\* str.upper()
upper(s) == [i \in 1..Len(s) |-> UpperTable[s[i]]]

\* str.endswith(suffix)
endswith(s, suffix) ==
    /\ Len(suffix) <= Len(s)
    /\ \A i \in 1..Len(suffix) : s[Len(s) - Len(suffix) + i] = suffix[i]

\* str.startswith(prefix)
startswith(s, prefix) ==
    /\ Len(prefix) <= Len(s)
    /\ \A i \in 1..Len(prefix) : s[i] = prefix[i]

\* cmp(s, t) on two byte strings, from character i on: -1, 0 or 1; the
\* first differing byte decides, then the length
RECURSIVE cmpfrom(_, _, _)
cmpfrom(s, t, i) ==
    IF i > Len(s) \/ i > Len(t)
    THEN IF Len(s) < Len(t) THEN -1 ELSE IF Len(s) > Len(t) THEN 1 ELSE 0
    ELSE IF s[i] = t[i] THEN cmpfrom(s, t, i + 1)
    ELSE IF CharCode(s[i]) < CharCode(t[i]) THEN -1 ELSE 1

cmp(s, t) == cmpfrom(s, t, 1)

\* input.replace('/','\\')
converttowindowsslashes(input) ==
    [i \in 1..Len(input) |-> IF input[i] = "/" THEN "\\" ELSE input[i]]

\* input.replace('\\','/')
converttolinuxslashes(input) ==
    [i \in 1..Len(input) |-> IF input[i] = "\\" THEN "/" ELSE input[i]]

\* Python's None, where a string is expected
None == <<"None">>

\* converttowindowsslasheswithendslash(input): what the call returns, or
\* the exception it raises.  A str has no append(), so the statement
\* input.append('\\') raises AttributeError whenever it is reached.
converttowindowsslasheswithendslash(input) ==
    LET converted == converttowindowsslashes(input)
    IN  IF endswith(converted, <<"\\">>)
        THEN [returns |-> converted, raises |-> ""]
        ELSE [returns |-> None, raises |-> "AttributeError"]

\* str.rfind(ch): 0-based index of the last occurrence, -1 when absent
rfind(s, ch) ==
    LET hits == {i \in 1..Len(s) : s[i] = ch}
    IN  IF hits = {} THEN -1
        ELSE (CHOOSE i \in hits : \A j \in hits : j <= i) - 1

\* s[from:to] with 0-based bounds
slice(s, from, to) ==
    IF to <= from THEN << >> ELSE SubSeq(s, from + 1, to)

\* variant: the row of '.hh' names the bucket of the row above the table's
codeExtensions_hhAsCpp == <<
    << <<".","c">>,             "cpp" >>,
    << <<".","c","p","p">>,     "cpp" >>,
    << <<".","h","p","p">>,     "h" >>,
    << <<".","h">>,             "h" >>,
    << <<".","h","h">>,         "cpp" >>,
    << <<".","i">>,             "h" >>,
    << <<".","i","n","c">>,     "h" >>,
    << <<".","r","c">>,         "windowsresource" >>,
    << <<".","r">>,             "macresource" >>,
    << <<".","r","s","r","c">>, "macresource" >>,
    << <<".","h","l","s","l">>, "hlsl" >> >>

(***************************************************************************)
(* Acceptable input files and which buckets they fall into                 *)
(***************************************************************************)
codeExtensions == <<
    << <<".","c">>,             "cpp" >>,
    << <<".","c","p","p">>,     "cpp" >>,
    << <<".","h","p","p">>,     "h" >>,
    << <<".","h">>,             "h" >>,
    << <<".","h","h">>,         "h" >>,
    << <<".","i">>,             "h" >>,
    << <<".","i","n","c">>,     "h" >>,
    << <<".","r","c">>,         "windowsresource" >>,
    << <<".","r">>,             "macresource" >>,
    << <<".","r","s","r","c">>, "macresource" >>,
    << <<".","h","l","s","l">>, "hlsl" >> >>

(***************************************************************************)
(* The file system seen through os.path and os.listdir                     *)
(***************************************************************************)
\* a folder token that does not resolve to a directory
NoDir == [isdir |-> FALSE, children |-> {}]

DOT == <<".">>
FolderA == <<"a">>
FolderTokens == {DOT, FolderA}

workingDir == <<"w">>

\* os.path.join of two components (posixpath / ntpath): a rooted second
\* part replaces the first
pathjoin(a, b) ==
    IF Len(b) > 0 /\ (b[1] = "/" \/ (sep = "\\" /\ b[1] = "\\")) THEN b
    ELSE IF Len(a) = 0 \/ a[Len(a)] = sep THEN a \o b
    ELSE a \o <<sep>> \o b

\* os.path.isdir(os.path.join(solution.workingDir, directory))
isdir(directory) == fs[directory].isdir

\* os.path.isfile follows symbolic links: true for a regular file and
\* for a link whose target is a regular file
isfile(kind) == kind \in {"file", "linkfile"}

\* kind of the child baseName of a directory
kindof(directory, baseName) ==
    (CHOOSE c \in fs[directory].children : c.name = baseName).kind

\* str.split(ch): the pieces between the occurrences of ch; ''.split(ch)
\* is ['']
RECURSIVE split(_, _)
split(s, ch) ==
    LET hits == {i \in 1..Len(s) : s[i] = ch}
    IN  IF hits = {} THEN <<s>>
        ELSE LET i == CHOOSE k \in hits : \A j \in hits : k <= j
             IN  <<SubSeq(s, 1, i - 1)>> \o split(SubSeq(s, i + 1, Len(s)), ch)

\* the finite sequences over S without repetition that enumerate S
RECURSIVE Perms(_)
Perms(S) ==
    IF S = {} THEN {<< >>}
    ELSE UNION {{<<x>> \o p : p \in Perms(S \ {x})} : x \in S}

\* the possible results of os.listdir(searchDir): the names in any order
listdir(directory) == Perms({c.name : c \in fs[directory].children})

(***************************************************************************)
(* sorted(items, cmp=...): Python's sort is stable.  keys[i] is the string *)
(* the comparator extracts from items[i].                                  *)
(***************************************************************************)
\* the place of items[i] in the result: after every item with a smaller key
\* and after the earlier items with an equal key
sortedplaces(v) ==
    [i \in 1..Len(v.items) |->
        1 + Cardinality({j \in 1..Len(v.items) :
                LET c == cmp(v.keys[j], v.keys[i])
                IN  c < 0 \/ (c = 0 /\ j < i)})] \o << >>

sortedvalues(v) ==
    CHOOSE r \in {[p \in 1..Len(v.items) |->
                    v.items[CHOOSE i \in 1..Len(v.items) : place[i] = p]]
                    \o << >> : place \in {sortedplaces(v)}} : TRUE

\* items and keys are evaluated once, as tuples, then sorted
sorted(items, keys) ==
    CHOOSE r \in {sortedvalues(v) :
                    v \in {[items |-> items \o << >>,
                            keys |-> keys \o << >>]}} : TRUE

(***************************************************************************)
(* scandirectory                                                           *)
(***************************************************************************)
\* variant: the exclusion entry is compared as written, not lowercased
excluded_asWritten(sol, testName) ==
    \E k \in 1..Len(sol.exclude) : testName = sol.exclude[k]

\* for exclude in solution.exclude: if testName==exclude.lower()
excluded(sol, testName) ==
    \E k \in 1..Len(sol.exclude) : testName = lower(sol.exclude[k])

\* for extension in codeExtensions: if testName.endswith(extension[0]):
\* ... break -- the first row that matches, 0 when none does
firstextension(testName) ==
    LET hits == {k \in 1..Len(codeExtensions) :
                    endswith(testName, codeExtensions[k][1])}
    IN  IF hits = {} THEN 0 ELSE CHOOSE k \in hits : \A j \in hits : k <= j

\* the SourceFile appended for baseName
SourceFile(directory, baseName, type) ==
    [filename  |-> IF directory = DOT THEN baseName
                   ELSE directory \o <<sep>> \o baseName,
     directory |-> pathjoin(workingDir, directory),
     type      |-> type]

\* one pass of "for baseName in nameList" for the child baseName
scanchild(sol, directory, baseName, cf) ==
    LET testName == lower(baseName)
        k == firstextension(testName)
    IN  IF excluded(sol, testName) THEN cf
        ELSE IF ~isfile(kindof(directory, baseName)) THEN cf
        ELSE IF k = 0 THEN cf
        ELSE Append(cf, SourceFile(directory, baseName, codeExtensions[k][2]))

RECURSIVE scanloop(_, _, _, _, _)
scanloop(sol, directory, nameList, i, cf) ==
    IF i > Len(nameList) THEN cf
    ELSE scanloop(sol, directory, nameList, i + 1,
                  scanchild(sol, directory, nameList[i], cf))

\* variant: an empty list is returned for a folder that is no directory
scandirectory_emptyOnMissing(sol, directory, cf, nameList) ==
    IF isdir(directory) THEN scanloop(sol, directory, nameList, 1, cf)
    ELSE << >>

\* nameList is the value os.listdir(searchDir) returns when it is called
scandirectory(sol, directory, cf, nameList) ==
    IF isdir(directory) THEN scanloop(sol, directory, nameList, 1, cf)
    ELSE cf

(***************************************************************************)
(* getfilelist                                                             *)
(***************************************************************************)
\* variant: the folder is recorded whenever the catalog is not empty
addinclude_nonEmpty(inc, sourcefolder, oldcount, newcount) ==
    IF newcount # 0 THEN Append(inc, sourcefolder) ELSE inc

\* if len(codefiles)!=oldcount: includedirectories.append(sourcefolder)
addinclude(inc, sourcefolder, oldcount, newcount) ==
    IF newcount # oldcount THEN Append(inc, sourcefolder) ELSE inc

\* the loop "for sourcefolder in solution.sourcefolders" from folder i on;
\* lists[d] is the listing of directory d
RECURSIVE folderloop(_, _, _, _, _)
folderloop(sol, lists, i, cf, inc) ==
    IF i > Len(sol.sourcefolders) THEN [codefiles |-> cf, includedirectories |-> inc]
    ELSE LET sourcefolder == sol.sourcefolders[i]
             oldcount == Len(cf)
             newcf == scandirectory(sol, sourcefolder, cf, lists[sourcefolder])
         IN  folderloop(sol, lists, i + 1, newcf,
                        addinclude(inc, sourcefolder, oldcount, Len(newcf)))

\* variant: the paths are compared as found, separators not normalized
sortcatalog_raw(cf) ==
    sorted(cf, [i \in 1..Len(cf) |-> cf[i].filename])

\* sorted(codefiles, cmp of converttowindowsslashes(filename))
sortcatalog(cf) ==
    sorted(cf, [i \in 1..Len(cf) |-> converttowindowsslashes(cf[i].filename)])

\* variant: the catalog is returned in the order of discovery
getfilelist_unsorted(sol, lists) ==
    folderloop(sol, lists, 1, << >>, << >>)

getfilelist(sol, lists) ==
    LET r == folderloop(sol, lists, 1, << >>, << >>)
    IN  [codefiles |-> sortcatalog(r.codefiles),
         includedirectories |-> r.includedirectories]

\* the listings os.listdir can return during one run: the tree does not
\* change during a run, every directory is listed in some arbitrary order
Listings ==
    {[d \in FolderTokens |-> IF d = DOT THEN l1 ELSE l2] :
        l1 \in IF isdir(DOT) THEN listdir(DOT) ELSE {<< >>},
        l2 \in IF isdir(FolderA) THEN listdir(FolderA) ELSE {<< >>}}

(***************************************************************************)
(* pickfromfilelist                                                        *)
(***************************************************************************)
RECURSIVE pickloop(_, _, _, _)
pickloop(cf, type, i, filelist) ==
    IF i > Len(cf) THEN filelist
    ELSE pickloop(cf, type, i + 1,
                  IF cf[i].type = type THEN Append(filelist, cf[i])
                  ELSE filelist)

pickfromfilelist(cf, type) == pickloop(cf, type, 1, << >>)

(***************************************************************************)
(* extractgroupname                                                        *)
(***************************************************************************)
\* index = name.rfind('\\'); if index==-1: index = name.rfind('/')
separatorindex(n) ==
    IF rfind(n, "\\") # -1 THEN rfind(n, "\\") ELSE rfind(n, "/")

\* newname = name[0:index], the value before the prefixes are removed;
\* the function returns '' before this line when no separator is found
parentpart(n) ==
    IF separatorindex(n) = -1 THEN << >> ELSE slice(n, 0, separatorindex(n))

\* while newname.startswith('..\\') or newname.startswith('../')
RECURSIVE stripdotdot(_)
stripdotdot(newname) ==
    IF startswith(newname, <<".",".","\\">>) \/ startswith(newname, <<".",".","/">>)
    THEN stripdotdot(slice(newname, 3, Len(newname)))
    ELSE newname

\* if newname.startswith('.\\') or newname.startswith('./')
stripdot(newname) ==
    IF startswith(newname, <<".","\\">>) \/ startswith(newname, <<".","/">>)
    THEN slice(newname, 2, Len(newname))
    ELSE newname

extractgroupname(n) ==
    IF separatorindex(n) = -1 THEN << >>
    ELSE stripdot(stripdotdot(parentpart(n)))

(***************************************************************************)
(* createxcodesolution: the order of codefiles up to the build phases      *)
(***************************************************************************)
\* os.path.basename: posixpath splits at '/', ntpath at '/' and '\\'
basename(p) ==
    LET i == IF sep = "/" THEN rfind(p, "/")
             ELSE IF rfind(p, "\\") > rfind(p, "/") THEN rfind(p, "\\")
             ELSE rfind(p, "/")
    IN  slice(p, i + 1, Len(p))

\* for fixup in codefiles: fixup.filename = converttolinuxslashes(...)
xcodefixup(cf) ==
    [i \in 1..Len(cf) |->
        [cf[i] EXCEPT !.filename = converttolinuxslashes(cf[i].filename)]]

\* sorted(codefiles, cmp of x.filename)
sortbyfilename(cf) == sorted(cf, [i \in 1..Len(cf) |-> cf[i].filename])

\* frameworks = [] for a library, ['AppKit.framework'] otherwise
xcodeframeworks(sol) ==
    IF sol.kind = "library" THEN << >>
    ELSE << [filename  |-> <<"A","p","p","K","i","t",".",
                             "f","r","a","m","e","w","o","r","k">>,
             directory |-> << >>,
             type      |-> "frameworks"] >>

\* the entries given a uuid: the cpp and h files of the catalog, slashes
\* fixed and sorted by file name, then the frameworks
xcodetoprocess(sol, catalog) ==
    SelectSeq(sortbyfilename(xcodefixup(catalog)),
              LAMBDA item : item.type \in {"cpp", "h"}) \o xcodeframeworks(sol)

\* the keys xcodeuuid is called with for the entries of toprocess
typekey(item) ==
    item.filename \o <<":">> \o
        (IF item.type = "cpp" THEN <<"S","o","u","r","c","e","s">>
         ELSE IF item.type = "h" THEN <<"H","e","a","d","e","r","s">>
         ELSE <<"F","r","a","m","e","w","o","r","k","s">>)

\* hashlib.md5(...).hexdigest(): 32 lowercase hexadecimal digits that the
\* bytes of the input determine.  MD5 is not computed: a 16-bit polynomial
\* digest, written four digits at a time, stands for it, and seed selects
\* the polynomial, so that the order of the digests is not a fixed one.
HexDigits ==
    <<"0","1","2","3","4","5","6","7","8","9","a","b","c","d","e","f">>

RECURSIVE md5mix(_, _, _, _)
md5mix(input, i, h, sd) ==
    IF i > Len(input) THEN h
    ELSE md5mix(input, i + 1,
                (h * (29 + 2 * sd) + CharCode(input[i])) % 65536, sd)

md5hexdigestof(h) ==
    [i \in 1..32 |->
        HexDigits[1 + ((h \div (16 ^ (3 - ((i - 1) % 4)))) % 16)]]

md5hexdigest(input, sd) ==
    CHOOSE d \in {md5hexdigestof(h) : h \in {md5mix(input, 1, sd, sd)}} : TRUE

\* variant: the whole digest is kept, in the case hexdigest() gives it
xcodeuuid_raw(input, sd) ==
    md5hexdigest(converttowindowsslashes(input), sd)

\* hashlib.md5(str(input).replace('/','\\')).hexdigest().upper()[0:24]
xcodeuuid(input, sd) ==
    slice(upper(md5hexdigest(converttowindowsslashes(input), sd)), 0, 24)

\* the digests a run can be made with
Seeds == {1, 2}

\* sorted(toprocess, cmp of x.typeuuid)
sortbytypeuuid(toprocess, sd) ==
    sorted(toprocess, [i \in 1..Len(toprocess) |->
                          xcodeuuid(typekey(toprocess[i]), sd)])

\* variant: the build phases keep the order of the typeuuid sort
sortbybasename_none(cf) == cf

\* sorted(codefiles, cmp of os.path.basename(x.filename))
sortbybasename(cf) == sorted(cf, [i \in 1..Len(cf) |-> basename(cf[i].filename)])

\* the files of a build phase: the key of each typeuuid written, in order
buildphase(cf, type, role) ==
    LET sel == SelectSeq(cf, LAMBDA item : item.type = type)
    IN  [i \in 1..Len(sel) |-> sel[i].filename \o <<":">> \o role]

\* codefiles as it stands at the PBXHeadersBuildPhase section
xcodephasefiles(cf) == sortbybasename(cf)

HeadersRole == <<"H","e","a","d","e","r","s">>
SourcesRole == <<"S","o","u","r","c","e","s">>

(***************************************************************************)
(* Groups and trees of the Visual Studio and CodeWarrior generators        *)
(***************************************************************************)
\* getplatformcode(platform): None for a platform the chain does not name
getplatformcode(platform) ==
    CASE platform = "windows"  -> <<"w","i","n">>
      [] platform = "macosx"   -> <<"o","s","x">>
      [] platform = "linux"    -> <<"l","n","x">>
      [] platform = "ps3"      -> <<"p","s","3">>
      [] platform = "ps4"      -> <<"p","s","4">>
      [] platform = "xbox"     -> <<"x","b","x">>
      [] platform = "xbox360"  -> <<"x","3","6">>
      [] platform = "xboxone"  -> <<"o","n","e">>
      [] platform = "shield"   -> <<"s","h","i">>
      [] platform = "ios"      -> <<"i","o","s">>
      [] platform = "mac"      -> <<"m","a","c">>
      [] platform = "msdos"    -> <<"d","o","s">>
      [] platform = "beos"     -> <<"b","o","s">>
      [] platform = "ouya"     -> <<"o","y","a">>
      [] OTHER -> None

\* getidecode(solution): None for an ide, or a codewarrior platform, the
\* chain does not name
getidecode(sol) ==
    CASE sol.ide = "xcode3"     -> <<"x","c","3">>
      [] sol.ide = "xcode4"     -> <<"x","c","4">>
      [] sol.ide = "xcode5"     -> <<"x","c","5">>
      [] sol.ide = "vs2003"     -> <<"v","c","7">>
      [] sol.ide = "vs2005"     -> <<"v","c","8">>
      [] sol.ide = "vs2008"     -> <<"v","c","9">>
      [] sol.ide = "vs2010"     -> <<"v","1","0">>
      [] sol.ide = "vs2012"     -> <<"v","1","1">>
      [] sol.ide = "codeblocks" -> <<"c","d","b">>
      [] sol.ide = "watcom"     -> <<"w","a","t">>
      [] sol.ide = "codewarrior" /\ sol.platform = "windows" -> <<"c","w","9">>
      [] sol.ide = "codewarrior" /\ sol.platform = "mac" -> <<"c","1","0">>
      [] OTHER -> None

\* getvsplatform(platform): the Visual Studio platform names, each held
\* whole; None for a platform the chain does not name
getvsplatform(platform) ==
    CASE platform = "windows"  -> <<"Win32", "x64">>
      [] platform = "ps3"      -> <<"PS3">>
      [] platform = "ps4"      -> <<"ORBIS">>
      [] platform = "xbox"     -> <<"Xbox">>
      [] platform = "xbox360"  -> <<"Xbox 360">>
      [] platform = "xboxone"  -> <<"Xbox ONE">>
      [] platform = "shield"   -> <<"Tegra-Android">>
      [] platform = "android"  -> <<"Android">>
      [] OTHER -> None

\* projectfilename = str(solution.projectname + idecode + platformcode)
projectfilename(sol) ==
    sol.projectname \o getidecode(sol) \o getplatformcode(sol.platform)

\* alllists = listh + listcpp + listwindowsresource
alllists(sol, cf) ==
    pickfromfilelist(cf, "h") \o pickfromfilelist(cf, "cpp") \o
        (IF getplatformcode(sol.platform) = <<"w","i","n">>
         THEN pickfromfilelist(cf, "windowsresource") ELSE << >>)

\* groups = dict()
NoGroups == [key \in {} |-> << >>]

\* variant: the file goes into the group of the first folder of its path
addtogroup_firstSegment(g, group, value) ==
    LET first == split(split(group, "\\")[1], "/")[1]
    IN  IF first \in DOMAIN g
        THEN [g EXCEPT ![first] = Append(@, value)]
        ELSE [key \in DOMAIN g \cup {first} |->
                IF key = first THEN <<value>> ELSE g[key]]

\* if groupname in groups: groups[groupname].append(value)
\* else: groups[groupname] = [value]
addtogroup(g, group, value) ==
    IF group \in DOMAIN g
    THEN [g EXCEPT ![group] = Append(@, value)]
    ELSE [key \in DOMAIN g \cup {group} |->
            IF key = group THEN <<value>> ELSE g[key]]

\* for item in alllists: groupname = converttowindowsslashes(
\* extractgroupname(item.filename)); the file goes into its group
RECURSIVE windowsgroups(_, _, _)
windowsgroups(items, i, g) ==
    IF i > Len(items) THEN g
    ELSE windowsgroups(items, i + 1,
            addtogroup(g,
                converttowindowsslashes(extractgroupname(items[i].filename)),
                converttowindowsslashes(items[i].filename)))

\* variant: only the dict of the whole group name is made
treeinsert_leafOnly(parts) == {parts}

\* the keys of the nested dicts after "for x in xrange(len(parts))" has
\* stepped through parts: one dict per prefix of parts
treeinsert(parts) == {SubSeq(parts, 1, x) : x \in 1..Len(parts)}

\* tree = dict(); for group in groups: parts = group.split(ch); ...
\* A nested dict is held as the set of the key paths that lead to a dict.
buildtree(g, ch) == UNION {treeinsert(split(group, ch)) : group \in DOMAIN g}

\* the keys of the dict the path leads to; << >> is the tree itself
treekeys(t, path) ==
    {p[Len(p)] : p \in {q \in t : /\ Len(q) = Len(path) + 1
                                  /\ SubSeq(q, 1, Len(path)) = path}}

\* the orders "for item in entry" can take through the dicts of the tree:
\* a Python 2 dict is iterated in the order of its hash table, which is
\* neither the insertion order nor the order of the keys
RECURSIVE dictordersof(_, _)
dictordersof(t, paths) ==
    IF paths = {} THEN {[p \in {} |-> << >>]}
    ELSE LET path == CHOOSE p \in paths : TRUE
         IN  {[p \in DOMAIN rest \cup {path} |->
                    IF p = path THEN o ELSE rest[p]] :
                 rest \in dictordersof(t, paths \ {path}),
                 o \in Perms(treekeys(t, path))}

dictorders(t) == dictordersof(t, t \cup {<< >>})

\* merged = item if string=='' else string + ch + item
merge(string, ch, item) ==
    IF string = << >> THEN item ELSE string \o <<ch>> \o item

\* variant: an element is written for every key of the tree
namedfilter_always(item) == TRUE

\* if item!='': the <Filter> or <GROUP> element is written for the key
namedfilter(item) == item # << >>

\* dumptreevs2005(indent, string, entry, fp, groups) from the i-th key of
\* entry on; entry is the dict at path and order the iteration order of
\* every dict.  The result lists what is written: one record for each
\* item, before the records of the dict below it.
RECURSIVE dumptreevs2005(_, _, _, _, _, _)
dumptreevs2005(string, path, i, t, g, order) ==
    IF i > Len(order[path]) THEN << >>
    ELSE LET item == order[path][i]
             merged == merge(string, "\\", item)
         IN  << [parent  |-> string,
                 name    |-> item,
                 merged  |-> merged,
                 written |-> namedfilter(item),
                 key     |-> << >>,
                 files   |-> IF merged \in DOMAIN g
                             THEN sorted(g[merged], g[merged]) ELSE << >>] >>
             \o dumptreevs2005(merged, Append(path, item), 1, t, g, order)
             \o dumptreevs2005(string, path, i + 1, t, g, order)

\* dumptreecodewarrior(indent, string, entry, fp, groups): the same walk;
\* a FILEREF holds os.path.basename(file)
RECURSIVE dumptreecodewarrior(_, _, _, _, _, _)
dumptreecodewarrior(string, path, i, t, g, order) ==
    IF i > Len(order[path]) THEN << >>
    ELSE LET item == order[path][i]
             merged == merge(string, "\\", item)
             sortlist == IF merged \in DOMAIN g
                         THEN sorted(g[merged], g[merged]) ELSE << >>
         IN  << [parent  |-> string,
                 name    |-> item,
                 merged  |-> merged,
                 written |-> namedfilter(item),
                 key     |-> << >>,
                 files   |-> [k \in 1..Len(sortlist) |-> basename(sortlist[k])]] >>
             \o dumptreecodewarrior(merged, Append(path, item), 1, t, g, order)
             \o dumptreecodewarrior(string, path, i + 1, t, g, order)

(***************************************************************************)
(* Filters of the Visual Studio 2010 generator                             *)
(***************************************************************************)
\* the files of listh, listcpp, listwindowsresource and listhlsl, in the
\* order of the four loops
filteritems(sol, cf) ==
    pickfromfilelist(cf, "h") \o pickfromfilelist(cf, "cpp") \o
        (IF getplatformcode(sol.platform) = <<"w","i","n">>
         THEN pickfromfilelist(cf, "windowsresource")
                  \o pickfromfilelist(cf, "hlsl")
         ELSE << >>)

\* groupset = set(groups): the filters of the files that have one
groupset(items) ==
    {converttowindowsslashes(extractgroupname(items[i].filename)) :
        i \in 1..Len(items)} \ {<< >>}

\* for group in groupset: the <Filter Include=group> declarations, with
\* the key of uuid.uuid3(uuid.NAMESPACE_DNS, str(projectfilename + group))
filters(sol, items, order) ==
    [k \in 1..Len(order) |->
        LET named == SelectSeq(items, LAMBDA item :
                        converttowindowsslashes(extractgroupname(item.filename))
                            = order[k])
        IN  [parent  |-> << >>,
             name    |-> order[k],
             merged  |-> converttowindowsslashes(order[k]),
             written |-> TRUE,
             key     |-> projectfilename(sol) \o converttowindowsslashes(order[k]),
             files   |-> [i \in 1..Len(named) |->
                            converttowindowsslashes(named[i].filename)]]]

(***************************************************************************)
(* createxcodesolution: identifiers, groups and identifier-keyed sections  *)
(***************************************************************************)
\* projectnamecode = str(solution.projectname + idecode + platformcode)
projectnamecode(sol) ==
    sol.projectname \o getidecode(sol) \o getplatformcode(sol.platform)

\* the keys of the semi-global uuids
semiglobalkeys(sol) ==
    [rootuuid           |-> <<"P","B","X","P","r","o","j","e","c","t","R","o","o","t">> \o projectnamecode(sol),
     shellscriptuuid    |-> <<"P","B","X","S","h","e","l","l","S","c","r","i","p","t","B","u","i","l","d","P","h","a","s","e">> \o projectnamecode(sol),
     frameworksuuid     |-> <<"P","B","X","F","r","a","m","e","w","o","r","k","s","B","u","i","l","d","P","h","a","s","e">> \o projectnamecode(sol),
     sourcesuuid        |-> <<"P","B","X","S","o","u","r","c","e","s","B","u","i","l","d","P","h","a","s","e">> \o projectnamecode(sol),
     headersuuid        |-> <<"P","B","X","H","e","a","d","e","r","s","B","u","i","l","d","P","h","a","s","e">> \o projectnamecode(sol),
     nativetargetuuid   |-> <<"P","B","X","N","a","t","i","v","e","T","a","r","g","e","t">> \o projectnamecode(sol),
     tonativetargetuuid |-> <<"T","o","P","B","X","N","a","t","i","v","e","T","a","r","g","e","t">> \o projectnamecode(sol),
     pbxprojectuuid     |-> <<"P","B","X","P","r","o","j","e","c","t">> \o projectnamecode(sol)]

\* rootuuid = xcodeuuid('PBXProjectRoot' + projectnamecode), and so on:
\* the identifiers of the project object, the build phases, the native
\* target and the two configuration lists
semiglobaluuids(sol, sd) ==
    CHOOSE r \in {[role \in DOMAIN keys |->
                      [uuid |-> xcodeuuid(keys[role], sd), key |-> keys[role]]] :
                  keys \in {semiglobalkeys(sol)}} : TRUE

configfilename(sol) ==
    IF sol.kind = "library" THEN <<"b","u","r","g","e","r",".","l","i","b","x","c","o","o","s","x",".","x","c","c","o","n","f","i","g">>
    ELSE <<"b","u","r","g","e","r",".","t","o","o","l","x","c","o","o","s","x",".","x","c","c","o","n","f","i","g">>

outputfilename(sol) ==
    IF sol.kind = "library"
    THEN <<"l","i","b","b","u","r","g","e","r","b","a","s","e">> \o getidecode(sol) \o <<"o","s","x",".","a">>
    ELSE sol.projectname

\* entry1: the configuration file, entry2: the output file
entry1(sol) ==
    [filename |-> configfilename(sol), directory |-> << >>,
     type |-> "text.xcconfig"]

entry2(sol) ==
    [filename |-> outputfilename(sol), directory |-> << >>,
     type |-> IF sol.kind = "library" THEN "lib" ELSE "exe"]

\* variant: the project name is part of the key of every file
uuidkey_withProject(sol, item) ==
    IF item.type \in {"lib", "exe"}
    THEN outputfilename(sol) \o <<":">> \o projectnamecode(sol)
    ELSE sol.projectname \o item.filename

\* the key item.uuid is computed from: outputfilename + ':' +
\* projectnamecode for the output file, item.filename for the others
uuidkey(sol, item) ==
    IF item.type \in {"lib", "exe"}
    THEN outputfilename(sol) \o <<":">> \o projectnamecode(sol)
    ELSE item.filename

\* the written entries of a section: identifier and the key it was made of
entries(keys, sd) ==
    [i \in 1..Len(keys) |-> [uuid |-> xcodeuuid(keys[i], sd), key |-> keys[i]]]

\* variant: the section is written in the order it was collected in
sortbyuuid_none(list) == list

\* sorted(list, cmp of the uuid)
sortbyuuid(list) == sorted(list, [i \in 1..Len(list) |-> list[i].uuid])

\* PBXBuildFile: one line for each item of codefiles, which is
\* sorted(toprocess, cmp of typeuuid)
pbxbuildfile(cf, sd) == entries([i \in 1..Len(cf) |-> typekey(cf[i])], sd)

\* codefiles at the PBXGroup section: toprocess = codefiles made the two
\* names one list, so entry1 and entry2 were appended to codefiles too
xcodecodefiles(sol, cf) == cf \o <<entry1(sol), entry2(sol)>>

\* PBXFileReference: toprocess = sorted(toprocess, cmp of uuid)
pbxfilereference(sol, cf, sd) ==
    sortbyuuid(entries([i \in 1..Len(cf) + 2 |->
                           uuidkey(sol, xcodecodefiles(sol, cf)[i])], sd))

\* for item in codefiles: groupname = extractgroupname(item.filename)
RECURSIVE xcodegroups(_, _, _)
xcodegroups(items, i, g) ==
    IF i > Len(items) THEN g
    ELSE xcodegroups(items, i + 1,
            addtogroup(g, extractgroupname(items[i].filename), items[i]))

\* uuid = xcodeuuid('PBXGroup!' + base); base is string after its last '/'
groupkey(string) ==
    <<"P","B","X","G","r","o","u","p","!">> \o slice(string, rfind(string, "/") + 1, Len(string))

\* sorted(groups[string], cmp of converttolinuxslashes(x.filename))
groupfiles(g, string) ==
    IF string \in DOMAIN g
    THEN sorted(g[string], [i \in 1..Len(g[string]) |->
                               converttolinuxslashes(g[string][i].filename)])
    ELSE << >>

\* the PBXGroup dumptreevsxcode appends for the dict at path, after those
\* of the dicts below it; children holds the keys of entry as iterated
pbxgroup(sol, string, children, g, sd) ==
    LET sortlist == groupfiles(g, string)
    IN  [uuid     |-> xcodeuuid(groupkey(string), sd),
         key      |-> groupkey(string),
         group    |-> string,
         children |-> [k \in 1..Len(children) |->
                          xcodeuuid(<<"P","B","X","G","r","o","u","p","!">>
                                        \o children[k], sd)],
         files    |-> [k \in 1..Len(sortlist) |-> uuidkey(sol, sortlist[k])]]

\* dumptreevsxcode(string, entry, xcodepbxgroups, groups) from the i-th
\* key of entry on: what the call appends to xcodepbxgroups
RECURSIVE dumptreevsxcode(_, _, _, _, _, _, _, _)
dumptreevsxcode(sol, string, path, i, t, g, order, sd) ==
    IF i <= Len(order[path])
    THEN dumptreevsxcode(sol, merge(string, "/", order[path][i]),
                         Append(path, order[path][i]), 1, t, g, order, sd)
         \o dumptreevsxcode(sol, string, path, i + 1, t, g, order, sd)
    ELSE IF string = << >> THEN << >>
    ELSE << pbxgroup(sol, string, order[path], g, sd) >>

\* the keys "for item in entry" of dumptreevsxcode visits, in order
RECURSIVE xcodevisits(_, _, _, _, _, _)
xcodevisits(string, path, i, t, g, order) ==
    IF i > Len(order[path]) THEN << >>
    ELSE LET item == order[path][i]
             merged == merge(string, "/", item)
             sortlist == groupfiles(g, merged)
         IN  << [parent  |-> string,
                 name    |-> item,
                 merged  |-> merged,
                 written |-> merged # << >>,
                 key     |-> IF merged # << >> THEN groupkey(merged) ELSE << >>,
                 files   |-> [k \in 1..Len(sortlist) |-> sortlist[k].filename]] >>
             \o xcodevisits(merged, Append(path, item), 1, t, g, order)
             \o xcodevisits(string, path, i + 1, t, g, order)

\* productsuuid = '1AB674ADFE9D54B511CA2CBB'
productsuuid == <<"1","A","B","6","7","4","A","D","F","E","9","D","5","4","B","5","1","1","C","A","2","C","B","B">>

\* the Products group: its identifier is a literal, made of no key
productsgroup(sol, sd) ==
    [uuid     |-> productsuuid,
     key      |-> << >>,
     group    |-> << >>,
     children |-> << >>,
     files    |-> << outputfilename(sol) \o <<":">> \o projectnamecode(sol) >>]

\* the root group: projectnameuuid = xcodeuuid(solution.projectname); the
\* groups of list but '', then the files of groups[''] but the output file
rootgroup(sol, list, g, sd) ==
    LET named == SelectSeq(list, LAMBDA item : item # << >>)
        sortlist == IF << >> \in DOMAIN g
                    THEN sorted(g[<< >>], [i \in 1..Len(g[<< >>]) |->
                                              g[<< >>][i].filename])
                    ELSE << >>
        kept == SelectSeq(sortlist, LAMBDA item :
                    xcodeuuid(uuidkey(sol, item), sd) #
                    xcodeuuid(outputfilename(sol) \o <<":">>
                                  \o projectnamecode(sol), sd))
    IN  [uuid     |-> xcodeuuid(sol.projectname, sd),
         key      |-> sol.projectname,
         group    |-> << >>,
         children |-> [k \in 1..Len(named) |->
                          xcodeuuid(<<"P","B","X","G","r","o","u","p","!">>
                                        \o named[k], sd)],
         files    |-> [k \in 1..Len(kept) |-> uuidkey(sol, kept[k])]]

\* xcodepbxgroups = sorted(xcodepbxgroups, cmp of x[0])
pbxgroupsection(sol, t, g, order, sd) ==
    sortbyuuid(<<productsgroup(sol, sd)>>
               \o dumptreevsxcode(sol, << >>, << >>, 1, t, g, order, sd)
               \o <<rootgroup(sol, order[<< >>], g, sd)>>)

\* the keys of the build configurations: 'PBXNativeTarget' + item for
\* every configuration, then 'PBXProject' + item for every configuration
configurationkeys(sol) ==
    [i \in 1..Len(sol.configurations) |->
        <<"P","B","X","N","a","t","i","v","e","T","a","r","g","e","t">> \o sol.configurations[i]]
    \o [i \in 1..Len(sol.configurations) |->
        <<"P","B","X","P","r","o","j","e","c","t">> \o sol.configurations[i]]

\* xcbuildconfigurations = sorted(xcbuildconfigurations, cmp of x[0])
xcbuildconfiguration(sol, sd) == sortbyuuid(entries(configurationkeys(sol), sd))

\* defaultconfiguration = solution.configurations[0] when no configuration
\* is named Release: what the statement raises
xcoderaises(sol) ==
    IF (\A i \in 1..Len(sol.configurations) :
            sol.configurations[i] # <<"R","e","l","e","a","s","e">>)
       /\ sol.configurations = << >>
    THEN "IndexError" ELSE ""

\* the objects of project.pbxproj in the order they are written, each with
\* the identifiers its fields name; secs holds the sorted sections, headers
\* and sources the keys of the two build phases.  item.uuid, item.typeuuid,
\* outputuuid, configfileuuid and projectnameuuid are computed once and
\* written wherever they are named; the Frameworks and Sources phases and
\* the configuration lists compute the identifiers they name anew
xcodewritten(sol, cf, secs, headers, sources, sd) ==
    LET ids == secs.objects
        object(isa, uuid, references) ==
            [isa |-> isa, uuid |-> uuid, references |-> references]
        uuid(key) ==
            secs.PBXFileReference[
                CHOOSE i \in 1..Len(secs.PBXFileReference) :
                    secs.PBXFileReference[i].key = key].uuid
        typeuuid(key) ==
            secs.PBXBuildFile[
                CHOOSE i \in 1..Len(secs.PBXBuildFile) :
                    secs.PBXBuildFile[i].key = key].uuid
        projectnameuuid ==
            secs.PBXGroup[
                CHOOSE i \in 1..Len(secs.PBXGroup) :
                    secs.PBXGroup[i].key = sol.projectname].uuid
        outputuuid == uuid(uuidkey(sol, entry2(sol)))
        configfileuuid == uuid(uuidkey(sol, entry1(sol)))
        frameworks == xcodeframeworks(sol)
        configurations(prefix) ==
            [i \in 1..Len(sol.configurations) |->
                xcodeuuid(prefix \o sol.configurations[i], sd)]
    IN  [i \in 1..Len(cf) |->
            object("PBXBuildFile", secs.PBXBuildFile[i].uuid,
                   << uuid(uuidkey(sol, cf[i])) >>)]
        \o [i \in 1..Len(secs.PBXFileReference) |->
               object("PBXFileReference", secs.PBXFileReference[i].uuid, << >>)]
        \o << object("PBXFrameworksBuildPhase", ids.frameworksuuid.uuid,
                     [i \in 1..Len(frameworks) |->
                         xcodeuuid(typekey(frameworks[i]), sd)]) >>
        \o [i \in 1..Len(secs.PBXGroup) |->
               object("PBXGroup", secs.PBXGroup[i].uuid,
                      secs.PBXGroup[i].children
                          \o [k \in 1..Len(secs.PBXGroup[i].files) |->
                                 uuid(secs.PBXGroup[i].files[k])]
                          \o (IF secs.PBXGroup[i].key = sol.projectname
                              THEN << productsuuid >> ELSE << >>))]
        \o << object("PBXHeadersBuildPhase", ids.headersuuid.uuid,
                     [k \in 1..Len(headers) |-> typeuuid(headers[k])]),
              object("PBXNativeTarget", ids.tonativetargetuuid.uuid,
                     << ids.nativetargetuuid.uuid, ids.headersuuid.uuid,
                        ids.sourcesuuid.uuid, ids.frameworksuuid.uuid >>
                         \o (IF sol.finalfolder # None
                             THEN << ids.shellscriptuuid.uuid >> ELSE << >>)
                         \o << outputuuid >>),
              object("PBXProject", ids.rootuuid.uuid,
                     << ids.pbxprojectuuid.uuid, projectnameuuid,
                        ids.tonativetargetuuid.uuid >>) >>
        \o (IF sol.finalfolder # None
            THEN << object("PBXShellScriptBuildPhase",
                           ids.shellscriptuuid.uuid, << >>) >>
            ELSE << >>)
        \o << object("PBXSourcesBuildPhase", ids.sourcesuuid.uuid,
                     [k \in 1..Len(sources) |-> xcodeuuid(sources[k], sd)]) >>
        \o [i \in 1..Len(secs.XCBuildConfiguration) |->
               object("XCBuildConfiguration",
                      secs.XCBuildConfiguration[i].uuid,
                      IF startswith(secs.XCBuildConfiguration[i].key,
                                    <<"P","B","X","P","r","o","j","e","c","t">>)
                      THEN << configfileuuid >> ELSE << >>)]
        \o (IF xcoderaises(sol) # "" THEN << >>
            ELSE << object("XCConfigurationList", ids.nativetargetuuid.uuid,
                           configurations(<<"P","B","X","N","a","t","i","v","e","T","a","r","g","e","t">>)),
                    object("XCConfigurationList", ids.pbxprojectuuid.uuid,
                           configurations(<<"P","B","X","P","r","o","j","e","c","t">>)) >>)

\* rootObject = rootuuid, the last line written
xcoderootobject(sol, secs) ==
    IF xcoderaises(sol) # "" THEN << >>
    ELSE << secs.objects.rootuuid.uuid >>

\* no section is written before createxcodesolution runs
NoSections ==
    [PBXBuildFile         |-> << >>,
     PBXFileReference     |-> << >>,
     PBXGroup             |-> << >>,
     XCBuildConfiguration |-> << >>,
     objects              |-> [role \in {} |-> << >>],
     written              |-> << >>,
     rootObject           |-> << >>]

(***************************************************************************)
(* Inputs: directory trees and configurations                              *)
(***************************************************************************)
\* children a directory of the tree can hold
TreeChildren ==
    {[name |-> <<"a","B",".","c">>, kind |-> "file"],
     [name |-> <<"x",".","h">>,     kind |-> "file"],
     [name |-> <<"x",".","h">>,     kind |-> "dir"],
     [name |-> <<"b",".","h">>,     kind |-> "file"],
     [name |-> <<"b",".","h">>,     kind |-> "linkfile"]}

\* names of regular files that exercise the extension table
TableNames ==
    {<<"x",".","c">>,
     <<"x",".","c","p","p">>,
     <<"x",".","h","p","p">>,
     <<"x",".","h">>,
     <<"x",".","h","h">>,
     <<"x",".","i">>,
     <<"x",".","i","n","c">>,
     <<"x",".","r","c">>,
     <<"x",".","r">>,
     <<"x",".","r","s","r","c">>,
     <<"x",".","h","l","s","l">>,
     <<"X",".","C","P","P">>,
     <<"x",".","H">>,
     <<".","c">>,
     <<"x",".","c","p">>,
     <<"x","c">>,
     <<"x",".","c","c">>,
     <<"x",".","c",".","m","d">>,
     <<"x",".","r","s">>}

\* the files a file of TableNames can stand next to
Companions ==
    {[name |-> <<"n",".","m","d">>, kind |-> "file"],
     [name |-> <<"a","B",".","c">>, kind |-> "file"]}

\* entries of solution.exclude
ExcludeEntries ==
    {<<"A","B",".","C">>, <<"x",".","h">>, <<"X",".","c","p","p">>}

\* the exclusion configured for the tree
TreeExclude == <<"X",".","H">>

Types == {"cpp", "h", "windowsresource", "macresource", "hlsl"}

\* sets of at most n children with pairwise different names
ChildSets(C, n) ==
    {S \in SUBSET C :
        /\ Cardinality(S) <= n
        /\ \A c, d \in S : c.name = d.name => c = d}

\* sequences over S of length at most n
SeqsUpTo(S, n) == UNION {[1..k -> S] : k \in 0..n}

\* sequences over S of length at most n without repetition
DistinctSeqsUpTo(S, n) ==
    {q \in SeqsUpTo(S, n) : \A i, j \in 1..Len(q) : q[i] = q[j] => i = j}

Dir(children) == [isdir |-> TRUE, children |-> children]

\* the entry the working directory holds for its subdirectory a
SubdirA == [name |-> FolderA, kind |-> "dir"]

Unset == << >>

\* projectname = 'project'
DefaultName == <<"p","r","o","j","e","c","t">>

\* class SolutionData with its defaults, but for the fields a script sets;
\* workingDir is the constant of that name
SolutionData(projectname, exclude, sourcefolders) ==
    [kind           |-> "tool",
     projectname    |-> projectname,
     ide            |-> "vs2010",
     platform       |-> "windows",
     finalfolder    |-> None,
     defines        |-> << >>,
     includefolders |-> << >>,
     configurations |-> << <<"D","e","b","u","g">>,
                           <<"I","n","t","e","r","n","a","l">>,
                           <<"R","e","l","e","a","s","e">> >>,
     exclude        |-> exclude,
     sourcefolders  |-> sourcefolders]

\* variant: the dispatcher gives every target the default project name
setide_andName(sol, ide) ==
    [sol EXCEPT !.ide = ide, !.projectname = DefaultName]

\* solution.ide = item
setide(sol, ide) == [sol EXCEPT !.ide = ide]

\* no command line is processed: main has not been entered
InitIdle ==
    /\ final = Unset
    /\ args = Unset
    /\ filepos = 0
    /\ myjsonlist = Unset
    /\ itempos = 0
    /\ error = 0
    /\ output = Unset

InitRun ==
    /\ InitIdle
    /\ pc = "start"
    /\ codefiles = Unset
    /\ includedirectories = Unset
    /\ picked = [type \in Types |-> Unset]
    /\ headersphase = Unset
    /\ sourcesphase = Unset
    /\ name = Unset
    /\ groupname = [parent |-> Unset, group |-> Unset]
    /\ groups = NoGroups
    /\ tree = {}
    /\ walk = Unset
    /\ sections = NoSections
    /\ seed = 0

\* a working directory and an optional subdirectory a, holding at most
\* MaxChildren files, links and directories between them
InitTree ==
    /\ sep \in {"/", "\\"}
    /\ \E root \in ChildSets(TreeChildren, MaxChildren) :
       \E sub \in {NoDir} \cup
                  {Dir(S) : S \in ChildSets(TreeChildren,
                                            MaxChildren - Cardinality(root))} :
            fs = [d \in FolderTokens |->
                    IF d = FolderA THEN sub
                    ELSE Dir(root \cup IF sub.isdir THEN {SubdirA} ELSE {})]
    /\ \E folders \in SeqsUpTo(FolderTokens, MaxFolders) :
       \E ex \in {<< >>, <<TreeExclude>>} :
            solution = SolutionData(DefaultName, ex, folders)

\* one directory holding a file named after the extension table, alone or
\* next to a file the table does not know
InitTable ==
    /\ sep = "/"
    /\ \E n \in TableNames : \E S \in ChildSets(Companions, 1) :
            fs = [d \in FolderTokens |->
                    IF d = FolderA THEN NoDir
                    ELSE Dir({[name |-> n, kind |-> "file"]} \cup S)]
    /\ \E ex \in DistinctSeqsUpTo(ExcludeEntries, MaxExclude) :
            solution = SolutionData(DefaultName, ex, <<DOT>>)

Init ==
    /\ InitRun
    /\ InitTree \/ InitTable

(***************************************************************************)
(* Operations                                                              *)
(***************************************************************************)
GetFileList ==
    /\ pc = "start"
    /\ \E lists \in Listings : \E r \in {getfilelist(solution, lists)} :
            /\ codefiles' = r.codefiles
            /\ includedirectories' = r.includedirectories
    /\ pc' = "scanned"
    /\ UNCHANGED <<final, runvars>>
    /\ UNCHANGED <<fs, sep, solution, picked, headersphase, sourcesphase,
                   name, groupname, groups, tree, walk, sections, seed>>

\* listh, listcpp, listwindowsresource, listhlsl = pickfromfilelist(...):
\* the calls a generator makes on the catalog getfilelist returned to it
PickFromFileList ==
    /\ pc = "scanned"
    /\ picked' = [type \in Types |-> pickfromfilelist(codefiles, type)]
    /\ pc' = "picked"
    /\ UNCHANGED <<final, runvars>>
    /\ UNCHANGED <<fs, sep, solution, codefiles, includedirectories,
                   headersphase, sourcesphase, name, groupname,
                   groups, tree, walk, sections, seed>>

\* solution.ide = 'xcode5'; createxcodesolution(solution, 5), from the
\* return of its call of getfilelist on
CreateXcodeSolution ==
    /\ pc = "scanned"
    /\ \E sd \in Seeds :
       \E sol \in {setide(solution, "xcode5")} :
       \E cf \in {sortbytypeuuid(xcodetoprocess(sol, codefiles), sd)} :
       \E written \in {[PBXBuildFile         |-> pbxbuildfile(cf, sd),
                        PBXFileReference     |-> pbxfilereference(sol, cf, sd),
                        XCBuildConfiguration |-> xcbuildconfiguration(sol, sd),
                        objects              |-> semiglobaluuids(sol, sd)]} :
       \E files \in {xcodephasefiles(cf)} :
       \E headers \in {buildphase(files, "h", HeadersRole)} :
       \E sources \in {buildphase(files, "cpp", SourcesRole)} :
       \E g \in {xcodegroups(xcodecodefiles(sol, cf), 1, NoGroups)} :
       \E t \in {buildtree(g, "/")} :
       \E order \in dictorders(t) :
       \E secs \in {[PBXBuildFile         |-> written.PBXBuildFile,
                     PBXFileReference     |-> written.PBXFileReference,
                     PBXGroup             |-> pbxgroupsection(sol, t, g, order, sd),
                     XCBuildConfiguration |-> written.XCBuildConfiguration,
                     objects              |-> written.objects]} :
            /\ solution' = sol
            /\ seed' = sd
            /\ groups' = g
            /\ tree' = t
            /\ walk' = xcodevisits(<< >>, << >>, 1, t, g, order)
            /\ sections' =
                  [PBXBuildFile         |-> secs.PBXBuildFile,
                   PBXFileReference     |-> secs.PBXFileReference,
                   PBXGroup             |-> secs.PBXGroup,
                   XCBuildConfiguration |-> secs.XCBuildConfiguration,
                   objects              |-> secs.objects,
                   written              |-> xcodewritten(sol, cf, secs, headers,
                                                         sources, sd),
                   rootObject           |-> xcoderootobject(sol, secs)]
            /\ headersphase' = headers
            /\ sourcesphase' = sources
            /\ pc' = IF xcoderaises(sol) = "" THEN "xcode" ELSE "raised"
    /\ UNCHANGED <<final, runvars>>
    /\ UNCHANGED <<fs, sep, codefiles, includedirectories,
                   picked, name, groupname>>

\* the <Files> of a .vcproj: groups, tree and dumptreevs2005, written
\* when alllists is not empty
vcprojfiles(ide) ==
    /\ pc = "scanned"
    /\ \E sol \in {setide(solution, ide)} :
       \E g \in {windowsgroups(alllists(sol, codefiles), 1, NoGroups)} :
       \E t \in {buildtree(g, "\\")} :
       \E order \in dictorders(t) :
            /\ solution' = sol
            /\ groups' = g
            /\ tree' = t
            /\ walk' = dumptreevs2005(<< >>, << >>, 1, t, g, order)
    /\ pc' = ide
    /\ UNCHANGED <<final, runvars>>
    /\ UNCHANGED <<fs, sep, codefiles, includedirectories, picked,
                   headersphase, sourcesphase, name, groupname,
                   sections, seed>>

\* solution.ide = 'vs2005'; createvs2005solution(solution)
CreateVS2005Solution == vcprojfiles("vs2005")

\* solution.ide = 'vs2008'; createvs2008solution(solution)
CreateVS2008Solution == vcprojfiles("vs2008")

\* solution.ide = 'codewarrior'; createcodewarriorsolution(solution)
CreateCodeWarriorSolution ==
    /\ pc = "scanned"
    /\ \E sol \in {setide(solution, "codewarrior")} :
       \E g \in {windowsgroups(alllists(sol, codefiles), 1, NoGroups)} :
       \E t \in {buildtree(g, "\\")} :
       \E order \in dictorders(t) :
            /\ solution' = sol
            /\ groups' = g
            /\ tree' = t
            /\ walk' = dumptreecodewarrior(<< >>, << >>, 1, t, g, order)
    /\ pc' = "codewarrior"
    /\ UNCHANGED <<final, runvars>>
    /\ UNCHANGED <<fs, sep, codefiles, includedirectories, picked,
                   headersphase, sourcesphase, name, groupname,
                   sections, seed>>

\* solution.ide = 'vs2010'; createvs2010solution(solution): the filters
\* file.  No dict and no tree is built; set(groups) is iterated in the
\* order of its hash table.
CreateVS2010Solution ==
    /\ pc = "scanned"
    /\ \E sol \in {setide(solution, "vs2010")} :
       \E items \in {filteritems(sol, codefiles)} :
       \E order \in Perms(groupset(items)) :
            /\ solution' = sol
            /\ walk' = filters(sol, items, order)
    /\ pc' = "vs2010"
    /\ UNCHANGED <<final, runvars>>
    /\ UNCHANGED <<fs, sep, codefiles, includedirectories, picked,
                   headersphase, sourcesphase, name, groupname,
                   groups, tree, sections, seed>>

Next == GetFileList \/ PickFromFileList \/ CreateXcodeSolution

Spec == Init /\ [][Next]_vars

(***************************************************************************)
(* The generators on catalogs of files found in nested source folders      *)
(***************************************************************************)
\* source folders a script can name, relative to the working directory
GroupFolders ==
    << DOT, <<"a">>, <<"a","/","x">>, <<"b","/","x">>, <<"s","/","c">> >>

\* the files a source folder can hold
GroupFiles == {{<<"a",".","c">>}, {<<"a",".","c">>, <<"b",".","h">>}}

ProjectNames == {<<"A","l","p","h","a">>, <<"B","e","t","a">>}

\* the folders of GroupFolders at the places S, in the order of GroupFolders
RECURSIVE FoldersAt(_)
FoldersAt(S) ==
    IF S = {} THEN << >>
    ELSE LET last == CHOOSE i \in S : \A j \in S : j <= i
         IN  Append(FoldersAt(S \ {last}), GroupFolders[last])

\* the state getfilelist returns in: at most MaxGroupFolders source
\* folders, each a directory that holds regular files only
InitCatalog ==
    /\ sep \in {"/", "\\"}
    /\ \E S \in {T \in SUBSET (1..Len(GroupFolders)) :
                    Cardinality(T) <= MaxGroupFolders} :
       \E held \in [{GroupFolders[i] : i \in S} -> GroupFiles] :
       \E projectname \in ProjectNames :
            /\ fs = [d \in DOMAIN held |->
                        Dir({[name |-> n, kind |-> "file"] : n \in held[d]})]
            /\ solution = SolutionData(projectname, << >>, FoldersAt(S))
    /\ \E lists \in {[d \in DOMAIN fs |->
                        CHOOSE l \in listdir(d) : TRUE]} :
       \E r \in {getfilelist(solution, lists)} :
            /\ codefiles = r.codefiles
            /\ includedirectories = r.includedirectories
    /\ InitIdle
    /\ pc = "scanned"
    /\ picked = [type \in Types |-> Unset]
    /\ headersphase = Unset
    /\ sourcesphase = Unset
    /\ name = Unset
    /\ groupname = [parent |-> Unset, group |-> Unset]
    /\ groups = NoGroups
    /\ tree = {}
    /\ walk = Unset
    /\ sections = NoSections
    /\ seed = 0

NextGroups ==
    \/ CreateVS2005Solution
    \/ CreateVS2008Solution
    \/ CreateVS2010Solution
    \/ CreateXcodeSolution
    \/ CreateCodeWarriorSolution

SpecGroups == InitCatalog /\ [][NextGroups]_vars

(***************************************************************************)
(* The tree walks on source folders that are absolute, end with a          *)
(* separator or start with '..'                                            *)
(***************************************************************************)
\* source folders a script can name: absolute, plain, with a separator at
\* the end, and above the working directory
WalkFolders ==
    { <<"/","r">>, <<"r">>, <<"a","/">>, <<".",".","/","a">> }

\* the state getfilelist returns in: at most MaxGroupFolders of these
\* source folders, each a directory that holds regular files only
InitWalk ==
    /\ sep \in {"/", "\\"}
    /\ \E folders \in DistinctSeqsUpTo(WalkFolders, MaxGroupFolders) :
       \E held \in [{folders[i] : i \in 1..Len(folders)} -> GroupFiles] :
            /\ fs = [d \in DOMAIN held |->
                        Dir({[name |-> n, kind |-> "file"] : n \in held[d]})]
            /\ solution = SolutionData(DefaultName, << >>, folders)
    /\ \E lists \in {[d \in DOMAIN fs |->
                        CHOOSE l \in listdir(d) : TRUE]} :
       \E r \in {getfilelist(solution, lists)} :
            /\ codefiles = r.codefiles
            /\ includedirectories = r.includedirectories
    /\ InitIdle
    /\ pc = "scanned"
    /\ picked = [type \in Types |-> Unset]
    /\ headersphase = Unset
    /\ sourcesphase = Unset
    /\ name = Unset
    /\ groupname = [parent |-> Unset, group |-> Unset]
    /\ groups = NoGroups
    /\ tree = {}
    /\ walk = Unset
    /\ sections = NoSections
    /\ seed = 0

NextWalk ==
    \/ CreateVS2005Solution
    \/ CreateVS2008Solution
    \/ CreateCodeWarriorSolution

SpecWalk == InitWalk /\ [][NextWalk]_vars

(***************************************************************************)
(* extractgroupname on path strings                                        *)
(***************************************************************************)
PathChars == {"a", ".", "/", "\\"}

PathStrings == SeqsUpTo(PathChars, MaxPathLen)

InitPath ==
    /\ sep = "/"
    /\ fs = [d \in FolderTokens |-> NoDir]
    /\ solution = SolutionData(DefaultName, << >>, << >>)
    /\ InitRun

ExtractGroupName ==
    /\ pc = "start"
    /\ \E n \in PathStrings :
        /\ name' = n
        /\ groupname' = [parent |-> parentpart(n), group |-> extractgroupname(n)]
    /\ pc' = "grouped"
    /\ UNCHANGED <<final, runvars>>
    /\ UNCHANGED <<fs, sep, solution, codefiles, includedirectories,
                   picked, headersphase, sourcesphase,
                   groups, tree, walk, sections, seed>>

\* final = converttowindowsslasheswithendslash(solution.finalfolder), on
\* any path string
ConvertToWindowsSlashesWithEndSlash ==
    /\ pc = "start"
    /\ \E n \in PathStrings :
        /\ name' = n
        /\ final' = converttowindowsslasheswithendslash(n)
    /\ pc' = "converted"
    /\ UNCHANGED runvars
    /\ UNCHANGED <<fs, sep, solution, codefiles, includedirectories,
                   picked, headersphase, sourcesphase, groupname,
                   groups, tree, walk, sections, seed>>

NextPath == ExtractGroupName \/ ConvertToWindowsSlashesWithEndSlash

SpecPath == InitPath /\ [][NextPath]_vars

(***************************************************************************)
(* main, processdefault, processeverything and processsolution: the        *)
(* command lists of an invocation                                          *)
(***************************************************************************)
\* converttoarray(input); a JSON value given for a list-valued key is a
\* string, a list or null, held with its type
converttoarray(input) ==
    IF input.type = "null" THEN << >>
    ELSE IF input.type # "list" THEN << input.value >>
    ELSE input.value

\* the keys processsolution stores as given, and those it stores as lists
ScalarKeys == {"kind", "projectname", "finalfolder", "platform"}
ArrayKeys == {"configurations", "sourcefolders", "exclude", "defines",
              "includefolders"}

\* variant: an unknown keyword is reported without an error
processsolution_noError(myjson, sol) ==
    [solution |-> [field \in DOMAIN sol |->
                      IF field \in DOMAIN myjson /\ field \in ScalarKeys
                      THEN myjson[field]
                      ELSE IF field \in DOMAIN myjson /\ field \in ArrayKeys
                      THEN converttoarray(myjson[field])
                      ELSE sol[field]],
     error    |-> 0,
     report   |-> IF DOMAIN myjson \subseteq ScalarKeys \cup ArrayKeys
                  THEN "settings" ELSE "unknown keyword"]

\* processsolution(myjson, solution): the keys of a dict are distinct, so
\* the order in which myjson.keys() yields them does not change the result
processsolution(myjson, sol) ==
    [solution |-> [field \in DOMAIN sol |->
                      IF field \in DOMAIN myjson /\ field \in ScalarKeys
                      THEN myjson[field]
                      ELSE IF field \in DOMAIN myjson /\ field \in ArrayKeys
                      THEN converttoarray(myjson[field])
                      ELSE sol[field]],
     error    |-> IF DOMAIN myjson \subseteq ScalarKeys \cup ArrayKeys
                  THEN 0 ELSE 1,
     report   |-> IF DOMAIN myjson \subseteq ScalarKeys \cup ArrayKeys
                  THEN "settings" ELSE "unknown keyword"]

\* createvs2005solution, createvs2008solution, createvs2010solution: the
\* error of createslnfile, which accepts each of the three, or 0.  The run
\* raises when the project file name is built from a None code, when the
\* platform names of getvsplatform are iterated and are None, or when the
\* final folder gets its end slash
createvssolution(sol) ==
    [solution |-> sol,
     error    |-> 0,
     report   |->
        IF getidecode(sol) = None \/ getplatformcode(sol.platform) = None
        THEN "raised"
        ELSE IF /\ getvsplatform(sol.platform) = None
                /\ (sol.configurations # << >> \/ sol.ide # "vs2010")
        THEN "raised"
        ELSE IF /\ sol.finalfolder # None
                /\ converttowindowsslasheswithendslash(sol.finalfolder).raises # ""
                /\ \/ sol.ide = "vs2010"
                   \/ sol.kind = "library" /\ sol.configurations # << >>
        THEN "raised"
        ELSE "generated"]

\* createxcodesolution: the project name code, and the configuration the
\* project defaults to
createxcodesolution(sol) ==
    [solution |-> sol,
     error    |-> 0,
     report   |-> IF getidecode(sol) = None
                     \/ getplatformcode(sol.platform) = None
                  THEN "raised"
                  ELSE IF xcoderaises(sol) # "" THEN "raised"
                  ELSE "generated"]

\* createcodewarriorsolution: the file name, then the exit code of the IDE
\* when the environment names its folder and the platform is windows
createcodewarriorsolution(sol, cwfolder, exitcode) ==
    [solution |-> sol,
     error    |-> IF cwfolder /\ sol.platform = "windows" THEN exitcode
                  ELSE 0,
     report   |-> IF getidecode(sol) = None
                     \/ getplatformcode(sol.platform) = None
                  THEN "raised" ELSE "generated"]

\* variant: a target without a generator gives the error of an unsupported
\* ide
notimplemented_error(sol) ==
    [solution |-> sol, error |-> 10, report |-> "not implemented"]

\* print 'Saving ' + item + ' not implemented yet'; error = 0
notimplemented(sol) ==
    [solution |-> sol, error |-> 0, report |-> "not implemented"]

\* the flags of the command line, in the order processdefault tests them
TargetFlags == << "xcode3", "xcode4", "xcode5", "vs2005", "vs2008",
                 "vs2010", "codeblocks", "codewarrior" >>

\* myjsonlist of processdefault: one item for each flag given
RECURSIVE defaultlist(_, _)
defaultlist(flags, i) ==
    IF i > Len(TargetFlags) THEN << >>
    ELSE IF TargetFlags[i] \in flags
         THEN << [str |-> TargetFlags[i]] >> \o defaultlist(flags, i + 1)
         ELSE defaultlist(flags, i + 1)

\* the settings of processdefault: '$(sdks)/windows/bin/' on windows,
\* '$(SDKS)/macosx/bin/' on macosx; hassource tells whether the working
\* directory holds a folder 'source'
defaultsolution(sol, flags, hassource) ==
    LET xcode == flags \cap {"xcode3", "xcode4", "xcode5"} # {}
    IN  [sol EXCEPT
            !.projectname = basename(workingDir),
            !.kind = "tool",
            !.platform = IF xcode THEN "macosx" ELSE "windows",
            !.finalfolder =
                IF xcode THEN <<"$","(","S","D","K","S",")","/","m","a","c","o","s","x","/","b","i","n","/">>
                ELSE <<"$","(","s","d","k","s",")","/","w","i","n","d","o","w","s","/","b","i","n","/">>,
            !.sourcefolders = IF hassource /\ flags # {}
                              THEN Append(@, <<"s","o","u","r","c","e">>)
                              ELSE @]

\* variant: every input file starts from the defaults of SolutionData
solutionforfile_fresh(sol) == SolutionData(DefaultName, << >>, << DOT >>)

\* main passes the one SolutionData it created to each processeverything
solutionforfile(sol) == sol

\* one pass of the loop of processeverything, with the outcome of the
\* branch its item took: an exception ends the run, an error breaks the
\* loops of processeverything and main, and a list that ends without error
\* is followed by the next input file or by the return of main
Step(result) ==
    /\ solution' = result.solution
    /\ error' = result.error
    /\ output' = Append(output, [item     |-> myjsonlist[itempos],
                                 report   |-> result.report,
                                 solution |-> result.solution,
                                 error    |-> result.error])
    /\ IF result.report = "raised"
       THEN pc' = "raised" /\ itempos' = itempos
       ELSE IF result.error # 0
       THEN pc' = "returned" /\ itempos' = itempos
       ELSE IF itempos < Len(myjsonlist)
       THEN pc' = "list" /\ itempos' = itempos + 1
       ELSE /\ pc' = IF filepos < Len(args.jsonfiles) THEN "main"
                    ELSE "returned"
            /\ itempos' = itempos
    /\ UNCHANGED <<args, filepos, myjsonlist>>
    /\ UNCHANGED <<fs, sep, codefiles, includedirectories, picked,
                   headersphase, sourcesphase, name, groupname, groups,
                   tree, walk, sections, seed, final>>

\* if type(item) is dict: solution,error = processsolution(item,solution)
ProcessSolution ==
    /\ pc = "list"
    /\ "dict" \in DOMAIN myjsonlist[itempos]
    /\ Step(processsolution(myjsonlist[itempos].dict, solution))

ProcessVS2010 ==
    /\ pc = "list"
    /\ myjsonlist[itempos] = [str |-> "vs2010"]
    /\ Step(createvssolution(setide(solution, "vs2010")))

ProcessVS2008 ==
    /\ pc = "list"
    /\ myjsonlist[itempos] = [str |-> "vs2008"]
    /\ Step(createvssolution(setide(solution, "vs2008")))

ProcessVS2005 ==
    /\ pc = "list"
    /\ myjsonlist[itempos] = [str |-> "vs2005"]
    /\ Step(createvssolution(setide(solution, "vs2005")))

ProcessXcode3 ==
    /\ pc = "list"
    /\ myjsonlist[itempos] = [str |-> "xcode3"]
    /\ Step(createxcodesolution(setide(solution, "xcode3")))

ProcessXcode4 ==
    /\ pc = "list"
    /\ myjsonlist[itempos] = [str |-> "xcode4"]
    /\ Step(createxcodesolution(setide(solution, "xcode4")))

ProcessXcode5 ==
    /\ pc = "list"
    /\ myjsonlist[itempos] = [str |-> "xcode5"]
    /\ Step(createxcodesolution(setide(solution, "xcode5")))

ProcessCodeWarrior ==
    /\ pc = "list"
    /\ myjsonlist[itempos] = [str |-> "codewarrior"]
    /\ \E cwfolder \in BOOLEAN, exitcode \in {0, 1} :
        Step(createcodewarriorsolution(setide(solution, "codewarrior"),
                                       cwfolder, exitcode))

\* else: the item names no target of the chain
ProcessNotImplemented ==
    /\ pc = "list"
    /\ "str" \in DOMAIN myjsonlist[itempos]
    /\ myjsonlist[itempos].str
           \notin {"vs2010", "vs2008", "vs2005", "xcode3", "xcode4",
                   "xcode5", "codewarrior"}
    /\ Step(notimplemented(solution))

\* main without input file and without projects.json: processdefault up to
\* its call of processeverything
ProcessDefault ==
    /\ pc = "main"
    /\ args.jsonfiles = << >>
    /\ \E hassource \in BOOLEAN :
        solution' = defaultsolution(solution, args.flags, hassource)
    /\ myjsonlist' = defaultlist(args.flags, 1)
    /\ IF args.flags = {}
       THEN error' = 2 /\ itempos' = 0 /\ pc' = "returned"
       ELSE error' = 0 /\ itempos' = 1 /\ pc' = "list"
    /\ UNCHANGED <<args, filepos, output>>
    /\ UNCHANGED <<fs, sep, codefiles, includedirectories, picked,
                   headersphase, sourcesphase, name, groupname, groups,
                   tree, walk, sections, seed, final>>

\* for input in args.jsonfiles: the file is found and parsed, and its list
\* handed to processeverything
LoadJson ==
    /\ pc = "main"
    /\ filepos < Len(args.jsonfiles)
    /\ filepos' = filepos + 1
    /\ LET myjson == args.jsonfiles[filepos + 1]
       IN  IF myjson.kind # "list"
           THEN /\ error' = 2
                /\ pc' = "returned"
                /\ UNCHANGED <<solution, myjsonlist, itempos>>
           ELSE /\ error' = 0
                /\ solution' = solutionforfile(solution)
                /\ myjsonlist' = myjson.items
                /\ IF myjson.items = << >>
                   THEN /\ itempos' = 0
                        /\ pc' = IF filepos + 1 < Len(args.jsonfiles)
                                 THEN "main" ELSE "returned"
                   ELSE /\ itempos' = 1
                        /\ pc' = "list"
    /\ UNCHANGED <<args, output>>
    /\ UNCHANGED <<fs, sep, codefiles, includedirectories, picked,
                   headersphase, sourcesphase, name, groupname, groups,
                   tree, walk, sections, seed, final>>

\* the settings objects the command lists of the model hold
SettingsObjects ==
    { [platform |-> "macosx"],
      [platform |-> "android"],
      [projectname |-> <<"B","e","t","a">>, kind |-> "library"],
      [projectname |-> <<"A","l","p","h","a">>],
      [sourcefolders |-> [type |-> "str", value |-> <<"s","o","u","r","c","e">>],
       exclude       |-> [type |-> "null", value |-> << >>],
       defines       |-> [type |-> "list", value |-> << <<"X">> >>]],
      [kind |-> "library", bogus |-> <<"1">>] }

\* an input file: a JSON list of settings objects and target names, JSON
\* of another type, or a file that is missing or does not parse
JsonFiles(n) ==
    {[kind |-> "list", items |-> items] :
        items \in SeqsUpTo({[dict |-> object] : object \in SettingsObjects}
                               \cup {[str |-> "vs2010"], [str |-> "xcode5"],
                                     [str |-> "codewarrior"],
                                     [str |-> "codeblocks"]}, n)}
        \cup {[kind |-> "object", items |-> << >>],
              [kind |-> "missing", items |-> << >>]}

\* main after argparse: solution = SolutionData(), and a command line of
\* target flags alone, or of one or two input files that hold at most
\* MaxItems items between them
InitMain ==
    /\ sep = "/"
    /\ fs = [d \in FolderTokens |-> NoDir]
    /\ solution = SolutionData(DefaultName, << >>, << DOT >>)
    /\ pc = "main"
    /\ \/ \E flags \in SUBSET {TargetFlags[i] : i \in 1..Len(TargetFlags)} :
             args = [jsonfiles |-> << >>, flags |-> flags]
       \/ \E one \in JsonFiles(MaxItems) :
             args = [jsonfiles |-> << one >>, flags |-> {}]
       \/ \E one \in JsonFiles(MaxItems) :
          \E two \in JsonFiles(MaxItems - Len(one.items)) :
             args = [jsonfiles |-> << one, two >>, flags |-> {}]
    /\ filepos = 0
    /\ myjsonlist = Unset
    /\ itempos = 0
    /\ error = 0
    /\ output = Unset
    /\ final = Unset
    /\ codefiles = Unset
    /\ includedirectories = Unset
    /\ picked = [type \in Types |-> Unset]
    /\ headersphase = Unset
    /\ sourcesphase = Unset
    /\ name = Unset
    /\ groupname = [parent |-> Unset, group |-> Unset]
    /\ groups = NoGroups
    /\ tree = {}
    /\ walk = Unset
    /\ sections = NoSections
    /\ seed = 0

NextMain ==
    \/ ProcessDefault
    \/ LoadJson
    \/ ProcessSolution
    \/ ProcessVS2010
    \/ ProcessVS2008
    \/ ProcessVS2005
    \/ ProcessXcode3
    \/ ProcessXcode4
    \/ ProcessXcode5
    \/ ProcessCodeWarrior
    \/ ProcessNotImplemented

SpecMain == InitMain /\ [][NextMain]_vars

(***************************************************************************)
(* createxcodesolution on the settings a script can give                   *)
(***************************************************************************)
\* the state after getfilelist, for the platform macosx, either kind, a
\* finalfolder or none, and a configuration list that is the default, one
\* configuration, or empty
InitProject ==
    /\ sep = "/"
    /\ \E S \in {T \in SUBSET (1..Len(GroupFolders)) :
                    Cardinality(T) <= MaxGroupFolders} :
       \E held \in [{GroupFolders[i] : i \in S} -> GroupFiles] :
       \E kind \in {"tool", "library"} :
       \E finalfolder \in {None, <<"$","(","S","D","K","S",")","/","m","a","c","o","s","x","/","b","i","n","/">>} :
       \E configurations \in
               {SolutionData(DefaultName, << >>, << >>).configurations,
                << <<"D","e","b","u","g">> >>, << >>} :
            /\ fs = [d \in DOMAIN held |->
                        Dir({[name |-> n, kind |-> "file"] : n \in held[d]})]
            /\ solution = [SolutionData(DefaultName, << >>, FoldersAt(S))
                              EXCEPT !.kind = kind,
                                     !.platform = "macosx",
                                     !.finalfolder = finalfolder,
                                     !.configurations = configurations]
    /\ \E lists \in {[d \in DOMAIN fs |->
                        CHOOSE l \in listdir(d) : TRUE]} :
       \E r \in {getfilelist(solution, lists)} :
            /\ codefiles = r.codefiles
            /\ includedirectories = r.includedirectories
    /\ InitIdle
    /\ pc = "scanned"
    /\ picked = [type \in Types |-> Unset]
    /\ headersphase = Unset
    /\ sourcesphase = Unset
    /\ name = Unset
    /\ groupname = [parent |-> Unset, group |-> Unset]
    /\ groups = NoGroups
    /\ tree = {}
    /\ walk = Unset
    /\ sections = NoSections
    /\ seed = 0

NextProject == CreateXcodeSolution

SpecProject == InitProject /\ [][NextProject]_vars

(***************************************************************************)
(* Vocabulary of the properties, stated apart from the operations          *)
(***************************************************************************)
\* the extension table as the specification gives it: suffix -> category
TableSuffixes ==
    {<< <<".","c">>, "cpp" >>, << <<".","c","p","p">>, "cpp" >>,
     << <<".","h">>, "h" >>, << <<".","h","p","p">>, "h" >>,
     << <<".","h","h">>, "h" >>, << <<".","i">>, "h" >>,
     << <<".","i","n","c">>, "h" >>,
     << <<".","r","c">>, "windowsresource" >>,
     << <<".","r">>, "macresource" >>, << <<".","r","s","r","c">>, "macresource" >>,
     << <<".","h","l","s","l">>, "hlsl" >>}

\* the categories of all rows whose suffix the lowercased name ends with
Categories(n) == {row[2] : row \in {r \in TableSuffixes : endswith(lower(n), r[1])}}

\* the name equals an exclusion entry up to case
IsExcluded(n) ==
    \E k \in 1..Len(solution.exclude) : lower(n) = lower(solution.exclude[k])

\* relative path of the child n of the source folder d
RelativePath(d, n) == IF d = DOT THEN n ELSE d \o <<sep>> \o n

\* the configured folders that resolve to a directory
ScannedFolders ==
    {solution.sourcefolders[i] : i \in
        {k \in 1..Len(solution.sourcefolders) : fs[solution.sourcefolders[k]].isdir}}

\* how often the folder d is configured
Occurrences(d) ==
    Cardinality({i \in 1..Len(solution.sourcefolders) : solution.sourcefolders[i] = d})

\* how many catalog entries carry the relative path f
Entries(f) == Cardinality({i \in 1..Len(codefiles) : codefiles[i].filename = f})

\* getfilelist has returned codefiles and includedirectories
Returned == pc = "scanned"

\* q is an arrangement of the sequence r
IsArrangement(q, r) ==
    /\ Len(q) = Len(r)
    /\ \A x \in {q[i] : i \in 1..Len(q)} \cup {r[i] : i \in 1..Len(r)} :
        Cardinality({i \in 1..Len(q) : q[i] = x})
            = Cardinality({i \in 1..Len(r) : r[i] = x})

(***************************************************************************)
(* C1: a child whose lowercased name equals the lowercased form of an      *)
(* exclusion entry is never in the catalog, whatever its extension; a      *)
(* child that matches no exclusion entry is not dropped on account of the  *)
(* exclusion list: a regular file with a table suffix is in the catalog.   *)
(***************************************************************************)
ExclusionCorrect ==
    Returned =>
        \A d \in ScannedFolders : \A c \in fs[d].children :
            /\ IsExcluded(c.name) => Entries(RelativePath(d, c.name)) = 0
            /\ (~IsExcluded(c.name) /\ c.kind = "file" /\ Categories(c.name) # {})
                    => Entries(RelativePath(d, c.name)) > 0

\* a file with a table suffix is excluded by an entry of different case,
\* next to a file that stays
ExclusionWitness ==
    /\ pc = "scanned"
    /\ \E d \in ScannedFolders : \E c, e \in fs[d].children :
        /\ c.kind = "file" /\ Categories(c.name) # {}
        /\ IsExcluded(c.name)
        /\ \A k \in 1..Len(solution.exclude) : c.name # solution.exclude[k]
        /\ Entries(RelativePath(d, c.name)) = 0
        /\ Entries(RelativePath(d, e.name)) > 0

(***************************************************************************)
(* C2: a non-excluded regular file whose lowercased name ends with a table *)
(* suffix gets exactly one catalog entry per scan of its folder, of the    *)
(* table's category; all rows that match agree on the category, so the     *)
(* order of the rows does not matter; without a matching suffix there is   *)
(* no entry.                                                               *)
(***************************************************************************)
ClassificationTotal ==
    Returned =>
        \A d \in ScannedFolders : \A c \in fs[d].children :
            (~IsExcluded(c.name) /\ c.kind = "file") =>
                /\ Cardinality(Categories(c.name)) <= 1
                /\ Entries(RelativePath(d, c.name))
                      = IF Categories(c.name) = {} THEN 0 ELSE Occurrences(d)
                /\ \A i \in 1..Len(codefiles) :
                      codefiles[i].filename = RelativePath(d, c.name)
                          => codefiles[i].type \in Categories(c.name)

\* a file of the table and a file outside of it were scanned together
ClassificationWitness ==
    /\ pc = "scanned"
    /\ \E c, e \in fs[DOT].children :
        /\ c.kind = "file" /\ e.kind = "file"
        /\ c.name # lower(c.name)
        /\ Categories(c.name) = {"cpp"} /\ Categories(e.name) = {}
        /\ ~IsExcluded(c.name) /\ ~IsExcluded(e.name)
        /\ Entries(c.name) = 1 /\ Entries(e.name) = 0
        /\ DOT \in ScannedFolders

(***************************************************************************)
(* C3: only regular files produce catalog entries: every entry is the      *)
(* relative path of a child of kind regular file of a configured folder,   *)
(* never of a directory or a symbolic link.                                *)
(***************************************************************************)
OnlyRegularFiles ==
    Returned =>
        \A i \in 1..Len(codefiles) :
            \E d \in ScannedFolders : \E c \in fs[d].children :
                /\ c.kind = "file"
                /\ codefiles[i].filename = RelativePath(d, c.name)

\* the configuration without the folders that are no directory
ExistingFolders ==
    SelectSeq(solution.sourcefolders, LAMBDA d : fs[d].isdir)

(***************************************************************************)
(* C4: a configured folder that is not an existing directory is skipped:   *)
(* scandirectory returns the catalog unchanged for it, and getfilelist     *)
(* returns what it returns for the configuration without such folders.     *)
(***************************************************************************)
MissingFolderSkipped ==
    /\ \A d \in FolderTokens :
            ~fs[d].isdir => scandirectory(solution, d, codefiles, << >>) = codefiles
    /\ Returned =>
            \E lists \in Listings :
                getfilelist([solution EXCEPT !.sourcefolders = ExistingFolders], lists)
                    = [codefiles |-> codefiles, includedirectories |-> includedirectories]

\* a missing folder is configured before or after one that gave entries
MissingFolderWitness ==
    /\ pc = "scanned"
    /\ Len(codefiles) > 0
    /\ Len(ExistingFolders) < Len(solution.sourcefolders)

\* the scan of the folder d adds an entry
Contributes(d) ==
    /\ fs[d].isdir
    /\ \E c \in fs[d].children :
        ~IsExcluded(c.name) /\ isfile(c.kind) /\ Categories(c.name) # {}

(***************************************************************************)
(* C5: the include-directory list holds, in configuration order, exactly   *)
(* the configured folders whose scan added an entry: the directories with  *)
(* a non-excluded file that has a table suffix.                            *)
(***************************************************************************)
IncludeDirectoriesExact ==
    Returned =>
        includedirectories = SelectSeq(solution.sourcefolders, Contributes)

\* a folder that gave nothing is configured after one that gave entries
IncludeDirectoriesWitness ==
    /\ pc = "scanned"
    /\ Len(solution.sourcefolders) = 2
    /\ Contributes(solution.sourcefolders[1])
    /\ fs[solution.sourcefolders[2]].isdir
    /\ ~Contributes(solution.sourcefolders[2])
    /\ includedirectories = <<solution.sourcefolders[1]>>

(***************************************************************************)
(* C6: no two entries of the catalog have the same relative path.          *)
(***************************************************************************)
RelativePathUnique ==
    Returned =>
        \A i, j \in 1..Len(codefiles) :
            codefiles[i].filename = codefiles[j].filename => i = j

(***************************************************************************)
(* C7: the catalog is in ascending order of the relative paths with every  *)
(* '/' replaced by '\'.                                                    *)
(***************************************************************************)
CatalogSorted ==
    Returned =>
        \A i \in 1..(Len(codefiles) - 1) :
            cmp(converttowindowsslashes(codefiles[i].filename),
                converttowindowsslashes(codefiles[i + 1].filename)) <= 0

\* two entries that the paths as found would order the other way round
CatalogSortedWitness ==
    /\ pc = "scanned"
    /\ \E i \in 1..(Len(codefiles) - 1) :
        /\ cmp(codefiles[i].filename, codefiles[i + 1].filename) > 0
        /\ cmp(converttowindowsslashes(codefiles[i].filename),
               converttowindowsslashes(codefiles[i + 1].filename)) < 0

(***************************************************************************)
(* C8: the catalog and the include-directory list are the same for every   *)
(* order in which the directory listing returns the children.              *)
(***************************************************************************)
DiscoveryDeterministic ==
    Returned =>
        \A lists \in Listings :
            getfilelist(solution, lists)
                = [codefiles |-> codefiles, includedirectories |-> includedirectories]

\* two listings that give the files to the scan in different orders
DiscoveryDeterministicWitness ==
    /\ pc = "scanned"
    /\ Len(codefiles) >= 2
    /\ \E l1, l2 \in Listings :
        folderloop(solution, l1, 1, << >>, << >>).codefiles
            # folderloop(solution, l2, 1, << >>, << >>).codefiles

(***************************************************************************)
(* Category-filtered listings                                              *)
(***************************************************************************)
\* the catalog entries of a type, in catalog order
OfType(type) == SelectSeq(codefiles, LAMBDA item : item.type = type)

\* the keys of the catalog entries of a type, in catalog order
PhaseKeys(type, role) ==
    [i \in 1..Len(OfType(type)) |->
        converttolinuxslashes(OfType(type)[i].filename) \o <<":">> \o role]

\* the base name a build-phase key was made from
KeyBaseName(key) == basename(slice(key, 0, rfind(key, ":")))

\* pickfromfilelist gives the catalog entries of each type in catalog order
PickedInCatalogOrder ==
    pc = "picked" => \A type \in Types : picked[type] = OfType(type)

\* C9 as stated: pickfromfilelist and the Headers and Sources build phases
\* list the catalog entries of the category in catalog order
FilteredInCatalogOrder ==
    /\ PickedInCatalogOrder
    /\ pc = "xcode" =>
        /\ headersphase = PhaseKeys("h", HeadersRole)
        /\ sourcesphase = PhaseKeys("cpp", SourcesRole)

\* C9 amended: pickfromfilelist lists the catalog entries of the category
\* in catalog order; the Headers and Sources build phases list exactly the
\* catalog entries of the category, in ascending order of the base name
FilteredListings ==
    /\ PickedInCatalogOrder
    /\ pc = "xcode" =>
        /\ IsArrangement(headersphase, PhaseKeys("h", HeadersRole))
        /\ IsArrangement(sourcesphase, PhaseKeys("cpp", SourcesRole))
        /\ \A i \in 1..(Len(headersphase) - 1) :
            cmp(KeyBaseName(headersphase[i]), KeyBaseName(headersphase[i + 1])) <= 0
        /\ \A i \in 1..(Len(sourcesphase) - 1) :
            cmp(KeyBaseName(sourcesphase[i]), KeyBaseName(sourcesphase[i + 1])) <= 0

\* a Headers phase whose order is not the order of the catalog
FilteredListingsWitness ==
    /\ pc = "xcode"
    /\ Len(headersphase) >= 2
    /\ headersphase # PhaseKeys("h", HeadersRole)

\* 0-based index of the last separator of either style, -1 without one
LastSeparator(n) ==
    IF rfind(n, "/") > rfind(n, "\\") THEN rfind(n, "/") ELSE rfind(n, "\\")

(***************************************************************************)
(* C10: the parent part computed by extractgroupname is the substring      *)
(* before the last separator of either style, empty without a separator.   *)
(***************************************************************************)
ParentBeforeLastSeparator ==
    pc = "grouped" =>
        groupname.parent = IF LastSeparator(name) = -1 THEN << >>
                           ELSE SubSeq(name, 1, LastSeparator(name))

\* the paths of a file placed directly in the source folder '..' or '.'
DirectlyInDotFolder(n) ==
    /\ Len(n) >= 3
    /\ \/ SubSeq(n, 1, 3) \in {<<".", ".", "/">>, <<".", ".", "\\">>}
          /\ LastSeparator(n) = 2
       \/ SubSeq(n, 1, 2) \in {<<".", "/">>, <<".", "\\">>}
          /\ LastSeparator(n) = 1

(***************************************************************************)
(* C11: the group key extractgroupname returns never starts with '../',    *)
(* '..\', './' or '.\', and a file directly inside a '..' or '.' source    *)
(* folder gets the empty group key.                                        *)
(***************************************************************************)
GroupKeyStripped ==
    pc = "grouped" =>
        /\ ~ startswith(groupname.group, <<".", ".", "/">>)
        /\ ~ startswith(groupname.group, <<".", ".", "\\">>)
        /\ ~ startswith(groupname.group, <<".", "/">>)
        /\ ~ startswith(groupname.group, <<".", "\\">>)
        /\ DirectlyInDotFolder(name) => groupname.group = << >>

\* the generators that build a group mapping and a tree
TreeGenerators == {"vs2005", "vs2008", "xcode", "codewarrior"}

\* the separator the generator writes group names with
GroupSeparator == IF pc = "xcode" THEN "/" ELSE "\\"

\* a path or group name written the way the generator writes it
Written(path) ==
    IF pc = "xcode" THEN converttolinuxslashes(path)
    ELSE converttowindowsslashes(path)

\* the catalog entries the generator selects for its file tree
SelectedEntries ==
    {codefiles[i] : i \in {j \in 1..Len(codefiles) :
        codefiles[j].type \in IF pc = "xcode" THEN {"cpp", "h"}
                              ELSE {"cpp", "h", "windowsresource"}}}

\* the group name the generator computes for a catalog path: Xcode has
\* rewritten the path with '/' before, the others rewrite the result
GroupNameOf(path) ==
    IF pc = "xcode" THEN extractgroupname(converttolinuxslashes(path))
    ELSE converttowindowsslashes(extractgroupname(path))

\* the path held at place i of the file list of group key
ListedPath(key, i) ==
    IF pc = "xcode" THEN groups[key][i].filename ELSE groups[key][i]

\* the places of the group mapping that hold the path
PlacesOf(path) ==
    {ki \in UNION {{<<key, i>> : i \in 1..Len(groups[key])} :
                      key \in DOMAIN groups} :
        ListedPath(ki[1], ki[2]) = path}

(***************************************************************************)
(* C12: in the group mapping and tree of the Visual Studio 2005/2008,      *)
(* Xcode and CodeWarrior generators every selected catalog entry is in the *)
(* file list of exactly one group, the group named by extractgroupname of  *)
(* its path, and every prefix of the segments of a non-empty group name is *)
(* a nested node of the tree.                                              *)
(***************************************************************************)
GroupingComplete ==
    pc \in TreeGenerators =>
        /\ \A e \in SelectedEntries :
              \E key \in DOMAIN groups : \E i \in 1..Len(groups[key]) :
                  /\ PlacesOf(Written(e.filename)) = {<<key, i>>}
                  /\ key = GroupNameOf(e.filename)
        /\ \A key \in DOMAIN groups \ {<< >>} :
              \A x \in 1..Len(split(key, GroupSeparator)) :
                  SubSeq(split(key, GroupSeparator), 1, x) \in tree

GroupingCompleteWitness ==
    /\ pc \in TreeGenerators
    /\ \E key \in DOMAIN groups :
          /\ Len(split(key, GroupSeparator)) >= 2
          /\ Len(groups[key]) >= 2
    /\ \E key \in DOMAIN groups :
          /\ key # << >>
          /\ Len(split(key, GroupSeparator)) = 1

\* the selected entries found directly in the working directory
RootLevelEntries ==
    {e \in SelectedEntries : GroupNameOf(e.filename) = << >>}

\* the tree has a dict whose key is the empty string
EmptyNamedNode == \E path \in tree : \E x \in 1..Len(path) : path[x] = << >>

\* C13 as stated: with root-level files the empty group name is in the
\* group mapping and the tree has no node whose name is the empty string
EmptyKeyOutsideTree ==
    (pc \in TreeGenerators /\ RootLevelEntries # {}) =>
        /\ << >> \in DOMAIN groups
        /\ ~ EmptyNamedNode

(***************************************************************************)
(* C13, amended: with root-level files the empty group name is in the      *)
(* group mapping and the tree holds one top-level dict under the empty     *)
(* name; the rendering writes no group element for it, and writes the      *)
(* root-level files at the top level.                                      *)
(***************************************************************************)
EmptyGroupNotRendered ==
    (pc \in TreeGenerators /\ RootLevelEntries # {}) =>
        /\ << >> \in DOMAIN groups
        /\ {path \in tree : \E x \in 1..Len(path) : path[x] = << >>}
              = { << << >> >> }
        /\ \A v \in 1..Len(walk) : walk[v].written => walk[v].name # << >>
        /\ \A s \in 1..Len(sections.PBXGroup) :
              sections.PBXGroup[s].key # <<"P","B","X","G","r","o","u","p","!">>
        /\ \E v \in 1..Len(walk) :
              /\ walk[v].name = << >>
              /\ walk[v].parent = << >>
              /\ \A e \in RootLevelEntries :
                    \E f \in 1..Len(walk[v].files) :
                        walk[v].files[f] = Written(e.filename)

EmptyGroupNotRenderedWitness ==
    /\ pc \in TreeGenerators
    /\ RootLevelEntries # {}
    /\ \E key \in DOMAIN groups : key # << >>
    /\ \E v \in 1..Len(walk) : walk[v].written

(***************************************************************************)
(* C14: the rendering walks of dumptreevs2005, dumptreevsxcode and         *)
(* dumptreecodewarrior and the filter declarations of Visual Studio 2010   *)
(* visit the children of every node in ascending order of their names,     *)
(* whatever order the groups were inserted in.                             *)
(***************************************************************************)
ChildrenAscending ==
    pc \in TreeGenerators \cup {"vs2010"} =>
        \A v, w \in 1..Len(walk) :
            (v < w /\ walk[v].parent = walk[w].parent) =>
                cmp(walk[v].name, walk[w].name) < 0

\* the source folder src/core of the nested grouping scenario
SrcCore == <<"s","/","c">>

\* the selected entries found in the source folder d
FoundIn(d) ==
    {e \in SelectedEntries : e.directory = pathjoin(workingDir, d)}

\* the scenario: a.cpp and b.h are both found in src/core
ScenarioFound ==
    /\ pc \in TreeGenerators
    /\ \E e \in FoundIn(SrcCore) : e.type = "cpp"
    /\ \E e \in FoundIn(SrcCore) : e.type = "h"

\* the names of the groups that hold the entry
GroupsOf(e) == {ki[1] : ki \in PlacesOf(Written(e.filename))}

\* C15 as stated: the group name is relative to the source folder, so both
\* files of src/core are in the group core, a node directly under the root,
\* and the tree has no node src
RelativeToSourceFolder ==
    ScenarioFound =>
        /\ \A e \in FoundIn(SrcCore) : GroupsOf(e) = { <<"c">> }
        /\ << <<"c">> >> \in tree
        /\ \A path \in tree : path[1] # <<"s">>

(***************************************************************************)
(* C15, amended: the group name of a file is the path of the source folder *)
(* it was found in, '' for the folder '.': both files of the source folder *)
(* src/core are in the group src/core, owned by the node core under the    *)
(* top-level node src, and no node core is directly under the root.        *)
(***************************************************************************)
SourceFolderNamesGroup ==
    /\ pc \in TreeGenerators =>
          \A i \in 1..Len(solution.sourcefolders) :
              \A e \in FoundIn(solution.sourcefolders[i]) :
                  GroupsOf(e) = {IF solution.sourcefolders[i] = DOT THEN << >>
                                 ELSE Written(solution.sourcefolders[i])}
    /\ ScenarioFound =>
          /\ \A e \in FoundIn(SrcCore) : GroupsOf(e) = {Written(SrcCore)}
          /\ << <<"s">> >> \in tree
          /\ << <<"s">>, <<"c">> >> \in tree
          /\ << <<"c">> >> \notin tree
          /\ \E v \in 1..Len(walk) :
                /\ walk[v].parent = <<"s">>
                /\ walk[v].name = <<"c">>
                /\ Len(walk[v].files) = Cardinality(FoundIn(SrcCore))

SourceFolderNamesGroupWitness ==
    /\ ScenarioFound
    /\ Cardinality(FoundIn(SrcCore)) = 2
    /\ Len(solution.sourcefolders) = 2

\* the entries of the identifier-keyed sections whose identifier xcodeuuid
\* made of a key
KeyedEntries ==
    {e \in UNION {{[uuid |-> section[i].uuid, key |-> section[i].key] :
                      i \in 1..Len(section)} :
                  section \in {sections.PBXBuildFile, sections.PBXFileReference,
                               sections.PBXGroup,
                               sections.XCBuildConfiguration}} :
        e.key # << >>}

UpperHexDigits ==
    {"0","1","2","3","4","5","6","7","8","9","A","B","C","D","E","F"}

(***************************************************************************)
(* C16: xcodeuuid is a function of its key after the separators are        *)
(* normalized: one key has one identifier, keys that differ only in '/'    *)
(* against '\' have the same identifier, and every identifier is 24        *)
(* characters out of 0-9 and A-F.                                          *)
(***************************************************************************)
XcodeUuidOfNormalizedKey ==
    pc = "xcode" =>
        /\ \A e \in KeyedEntries :
              /\ Len(e.uuid) = 24
              /\ \A i \in 1..Len(e.uuid) : e.uuid[i] \in UpperHexDigits
              /\ e.uuid = xcodeuuid(converttolinuxslashes(e.key), seed)
              /\ e.uuid = xcodeuuid(converttowindowsslashes(e.key), seed)
        /\ \A n1, n2 \in {[uuid |-> e.uuid,
                              key |-> converttowindowsslashes(e.key) \o << >>] :
                                e \in KeyedEntries} :
              n1.key = n2.key => n1.uuid = n2.uuid

XcodeUuidOfNormalizedKeyWitness ==
    /\ pc = "xcode"
    /\ \E e \in KeyedEntries :
          /\ \E i \in 1..Len(e.key) : e.key[i] = "/"
          /\ \E i \in 1..Len(e.uuid) : e.uuid[i] \in {"A","B","C","D","E","F"}
    /\ \E e1, e2 \in KeyedEntries : e1.uuid # e2.uuid

\* the role a catalog entry has in the Xcode project
RoleOf(e) == IF e.type = "cpp" THEN SourcesRole ELSE HeadersRole

\* the keys of the entries of a section
KeysOf(section) == {section[i].key : i \in 1..Len(section)}

\* the section holds the key, with the identifier xcodeuuid gives the key
HoldsKey(section, key) ==
    \E i \in 1..Len(section) :
        /\ section[i].key = key
        /\ section[i].uuid = xcodeuuid(key, seed)

\* the project as generated under another project name
Renamed(p) == [solution EXCEPT !.projectname = p]

(***************************************************************************)
(* C17: in the Xcode generator the key of the identifier of a source file  *)
(* is its relative path alone and the key of its role identifier is the    *)
(* path, ':' and the role name; the project name is in neither, so the     *)
(* file has the same two identifiers under another project name.           *)
(***************************************************************************)
FileKeysWithoutProjectName ==
    pc = "xcode" =>
        /\ \A e \in SelectedEntries :
              /\ HoldsKey(sections.PBXFileReference, Written(e.filename))
              /\ HoldsKey(sections.PBXBuildFile,
                          Written(e.filename) \o <<":">> \o RoleOf(e))
        /\ \A p \in ProjectNames \ {solution.projectname} :
           \E cf \in {sortbytypeuuid(xcodetoprocess(Renamed(p), codefiles), seed)} :
           \E renamed \in {pbxfilereference(Renamed(p), cf, seed)} :
              /\ pbxbuildfile(cf, seed) = sections.PBXBuildFile
              /\ \A e \in SelectedEntries :
                    HoldsKey(renamed, Written(e.filename))

FileKeysWithoutProjectNameWitness ==
    /\ pc = "xcode"
    /\ \E e \in SelectedEntries : e.type = "cpp" /\ rfind(e.filename, sep) # -1
    /\ \E e \in SelectedEntries : e.type = "h"
    /\ \E p \in ProjectNames : p # solution.projectname

(***************************************************************************)
(* C18: the key of the identifier of a group node is made of its fully     *)
(* qualified group path, so two distinct nodes of one project, the Xcode   *)
(* PBXGroup objects as well as the Visual Studio 2010 filters, have        *)
(* distinct keys.                                                          *)
(***************************************************************************)
GroupKeysDistinct ==
    pc \in {"xcode", "vs2010"} =>
        \A v, w \in 1..Len(walk) :
            (walk[v].written /\ walk[w].written
                /\ walk[v].merged # walk[w].merged)
            => walk[v].key # walk[w].key

\* the identifiers of a section
UuidsOf(section) == {section[i].uuid : i \in 1..Len(section)}

(***************************************************************************)
(* C19: the key of every synthetic project-level object of the Xcode       *)
(* generator (project root, build phases, native target, configuration     *)
(* lists, build configurations, Products group) is a role literal followed *)
(* by the project name, so under another project name each of them,        *)
(* Products included, has another key and another identifier.              *)
(***************************************************************************)
SyntheticKeysNameProject ==
    pc = "xcode" =>
        \A p \in ProjectNames \ {solution.projectname} :
            /\ \A role \in DOMAIN sections.objects :
                  /\ semiglobalkeys(Renamed(p))[role] # sections.objects[role].key
                  /\ xcodeuuid(semiglobalkeys(Renamed(p))[role], seed)
                        # sections.objects[role].uuid
            /\ \A c \in 1..Len(sections.XCBuildConfiguration) :
                  sections.XCBuildConfiguration[c].uuid
                      \notin UuidsOf(xcbuildconfiguration(Renamed(p), seed))
            /\ productsgroup(Renamed(p), seed).uuid
                  \notin UuidsOf(sections.PBXGroup)

\* the identifiers of the section do not descend
AscendingUuids(section) ==
    \A i \in 1..(Len(section) - 1) :
        cmp(section[i].uuid, section[i + 1].uuid) <= 0

(***************************************************************************)
(* C20: every identifier-keyed section the Xcode generator writes is in    *)
(* ascending order of the hexadecimal identifier: PBXBuildFile by the role *)
(* identifier, PBXFileReference by the file identifier, PBXGroup and       *)
(* XCBuildConfiguration by the identifier of the object.                   *)
(***************************************************************************)
SectionsAscending ==
    pc = "xcode" =>
        /\ AscendingUuids(sections.PBXBuildFile)
        /\ AscendingUuids(sections.PBXFileReference)
        /\ AscendingUuids(sections.PBXGroup)
        /\ AscendingUuids(sections.XCBuildConfiguration)

SectionsAscendingWitness ==
    /\ pc = "xcode"
    /\ Len(sections.PBXBuildFile) >= 3
    /\ Len(sections.PBXFileReference) >= 3
    /\ Len(sections.PBXGroup) >= 3
    /\ Len(sections.XCBuildConfiguration) >= 3
    /\ sections.PBXGroup[1].uuid # productsuuid
    /\ sections.PBXBuildFile[Len(sections.PBXBuildFile)].key
          # typekey(xcodeframeworks(solution)[1])

\* input with '/' replaced by '\' and a '\' added when it does not end with one
WithEndSlash(input) ==
    IF endswith(converttowindowsslashes(input), <<"\\">>)
    THEN converttowindowsslashes(input)
    ELSE converttowindowsslashes(input) \o <<"\\">>

(***************************************************************************)
(* C25: converttowindowsslasheswithendslash returns, for every path        *)
(* string, the path with '/' replaced by '\' and a trailing '\' ensured:    *)
(* the call returns, and what it returns ends with '\', also when the      *)
(* input does not end with a separator.                                    *)
(***************************************************************************)
EndSlashEnsured ==
    pc = "converted" =>
        /\ final.raises = ""
        /\ final.returns = WithEndSlash(name)
        /\ endswith(final.returns, <<"\\">>)

\* the fields of the solution that hold the project configuration
ConfigurationFields ==
    {"kind", "projectname", "platform", "finalfolder", "configurations",
     "exclude", "defines", "sourcefolders", "includefolders"}

\* the positions a run is at after a generator has run
Generated == {"vs2005", "vs2008", "vs2010", "xcode", "codewarrior"}

(***************************************************************************)
(* C24: the project configuration is read-only to the generators: a step   *)
(* that runs a target generator leaves kind, projectname, platform,        *)
(* finalfolder, configurations, exclude, defines, sourcefolders and        *)
(* includefolders of the solution as they were; only ide is set, by the    *)
(* dispatcher.                                                             *)
(***************************************************************************)
GeneratorsKeepConfiguration ==
    [][pc' \in Generated =>
          \A field \in ConfigurationFields : solution'[field] = solution[field]]_vars

GeneratorsKeepConfigurationWitness ==
    /\ pc \in Generated
    /\ solution.ide # "vs2010"
    /\ Len(solution.sourcefolders) = 2
    /\ Len(walk) >= 2

\* the prefixes of a group name that end where a segment ends
GroupPrefixes(group) ==
    {SubSeq(group, 1, i) :
        i \in {j \in 1..Len(group) : j = Len(group) \/ group[j + 1] = "\\"}}

\* the filters the filters file declares under the name
DeclaredAs(group) == {v \in 1..Len(walk) : walk[v].name = group}

(***************************************************************************)
(* C26: in the Visual Studio 2010 filters file, for every listed file with *)
(* a non-empty group key a Filter element is declared for the key itself   *)
(* and for every proper prefix of its segments, each exactly once.         *)
(***************************************************************************)
FilterForEveryPrefix ==
    pc = "vs2010" =>
        \A e \in 1..Len(codefiles) :
            \A group \in {converttowindowsslashes(
                              extractgroupname(codefiles[e].filename))} :
                group # << >> =>
                    \A prefix \in GroupPrefixes(group) :
                        Cardinality(DeclaredAs(prefix)) = 1

\* the name a tree walk writes for the catalog entry
WalkName(e) ==
    IF pc = "codewarrior"
    THEN basename(converttowindowsslashes(codefiles[e].filename))
    ELSE converttowindowsslashes(codefiles[e].filename)

\* the places of the walk that hold the entry inside the chain of elements
\* that spells its group key
WalkPlaces(e) ==
    {vk \in UNION {{<<v, k>> : k \in 1..Len(walk[v].files)} :
                      v \in 1..Len(walk)} :
        /\ walk[vk[1]].files[vk[2]] = WalkName(e)
        /\ walk[vk[1]].merged =
              converttowindowsslashes(extractgroupname(codefiles[e].filename))}

\* the number of file elements the walk writes
RECURSIVE WalkFileCount(_)
WalkFileCount(v) ==
    IF v = 0 THEN 0 ELSE Len(walk[v].files) + WalkFileCount(v - 1)

(***************************************************************************)
(* C29: in the Visual Studio 2005/2008 and CodeWarrior outputs the tree    *)
(* walk writes every selected catalog entry exactly once, inside the       *)
(* nested element chain that spells its group key, also for source folders *)
(* that are absolute, end with a separator or start with '..': no file is  *)
(* dropped and none is written twice.                                      *)
(***************************************************************************)
WalkWritesEveryFileOnce ==
    pc \in {"vs2005", "vs2008", "codewarrior"} =>
        /\ \A e \in 1..Len(codefiles) : Cardinality(WalkPlaces(e)) = 1
        /\ WalkFileCount(Len(walk)) = Len(codefiles)

(***************************************************************************)
(* The command lists of an invocation                                      *)
(***************************************************************************)
\* the items of the input files in the order given, up to the first file
\* that holds no list
RECURSIVE CommandsFrom(_)
CommandsFrom(i) ==
    IF i > Len(args.jsonfiles) THEN << >>
    ELSE IF args.jsonfiles[i].kind # "list" THEN << >>
    ELSE args.jsonfiles[i].items \o CommandsFrom(i + 1)

\* the command list of the invocation: of its input files, or of its flags
Commands ==
    IF args.jsonfiles = << >> THEN defaultlist(args.flags, 1)
    ELSE CommandsFrom(1)

\* the keys of a configuration object, and the targets with a generator
RecognizedKeys ==
    {"kind", "projectname", "finalfolder", "platform", "configurations",
     "sourcefolders", "exclude", "defines", "includefolders"}
ImplementedTargets ==
    {"vs2005", "vs2008", "vs2010", "xcode3", "xcode4", "xcode5",
     "codewarrior"}

IsObject(item) == "dict" \in DOMAIN item
HasUnknownKey(item) ==
    IsObject(item) /\ ~(DOMAIN item.dict \subseteq RecognizedKeys)
IsUnsupported(item) ==
    ~IsObject(item) /\ item.str \notin ImplementedTargets
IsImplemented(item) ==
    ~IsObject(item) /\ item.str \in ImplementedTargets

\* C21: a configuration object with an unrecognized key is reported with a
\* nonzero error, nothing listed after it is handled, and the run returns
\* a nonzero code
UnknownKeyAborts ==
    \A k \in 1..Len(output) :
        HasUnknownKey(Commands[k]) =>
            /\ output[k].report = "unknown keyword"
            /\ output[k].error # 0
            /\ Len(output) = k
            /\ pc = "returned"
            /\ error # 0

\* an object with an unknown key was handled and a target is listed after it
UnknownKeyAbortsWitness ==
    /\ pc = "returned"
    /\ Len(output) > 0
    /\ HasUnknownKey(Commands[Len(output)])
    /\ Len(Commands) > Len(output)
    /\ IsImplemented(Commands[Len(output) + 1])

\* every input file of the invocation holds a list
AllLists ==
    \A i \in 1..Len(args.jsonfiles) : args.jsonfiles[i].kind = "list"

\* C22: a target without a generator is reported with error 0, the run goes
\* on to the item after it, and a run that ends with it returns 0
NotImplementedContinues ==
    \A k \in 1..Len(output) :
        IsUnsupported(Commands[k]) =>
            /\ output[k].report = "not implemented"
            /\ output[k].error = 0
            /\ Len(output) = k /\ k < Len(Commands) => pc \in {"list", "main"}
            /\ Len(output) = k /\ k = Len(Commands) /\ AllLists
                   /\ pc = "returned" => error = 0

\* a target was generated after a target without a generator, in a run
\* that returned 0
NotImplementedContinuesWitness ==
    /\ pc = "returned"
    /\ error = 0
    /\ \E k \in 1..Len(output) - 1 :
        /\ IsUnsupported(Commands[k])
        /\ output[k + 1].report = "generated"

\* C23: a generator that returned a nonzero error does not end the run
\* while items are listed after its target
FailureDoesNotBlock ==
    \A k \in 1..Len(output) :
        /\ IsImplemented(Commands[k])
        /\ output[k].report = "generated"
        /\ output[k].error # 0
        /\ k < Len(Commands)
        => ~(pc = "returned" /\ Len(output) = k)

\* the list a JSON value stands for under a list-valued key
ListForm(value) ==
    CASE value.type = "null" -> << >>
      [] value.type = "str" -> << value.value >>
      [] value.type = "list" -> value.value

ListValued ==
    {"configurations", "sourcefolders", "exclude", "defines",
     "includefolders"}

\* the setting field has when item k is reached: the value of the last
\* object before k that names it, or else the default of SolutionData
Accumulated(k, field) ==
    LET naming == {j \in 1..(k - 1) :
                      /\ IsObject(Commands[j])
                      /\ field \in DOMAIN Commands[j].dict}
    IN  IF naming = {}
        THEN SolutionData(DefaultName, << >>, << DOT >>)[field]
        ELSE LET last == CHOOSE j \in naming : \A i \in naming : i <= j
             IN  IF field \in ListValued
                 THEN ListForm(Commands[last].dict[field])
                 ELSE Commands[last].dict[field]

\* C27: the items of the input files are handled in the order listed, and a
\* generator is called with the target as ide and, for every other setting,
\* with the value accumulated from the objects before the target
OrderAndAccumulation ==
    args.jsonfiles # << >> =>
        \A k \in 1..Len(output) :
            /\ output[k].item = Commands[k]
            /\ IsImplemented(Commands[k]) =>
                   /\ output[k].solution.ide = Commands[k].str
                   /\ \A field \in RecognizedKeys :
                          output[k].solution[field] = Accumulated(k, field)

\* a target of the second file was generated with the kind an object of
\* the first file gave and the project name an object of the second gave
OrderAndAccumulationWitness ==
    /\ Len(args.jsonfiles) = 2
    /\ Len(args.jsonfiles[1].items) = 1
    /\ Len(output) = 3
    /\ output[3].report = "generated"
    /\ output[3].solution.kind = "library"
    /\ output[3].solution.projectname = <<"A","l","p","h","a">>
    /\ Len(output[3].solution.sourcefolders) = 1

\* C30: a generator is only called with a solution for which getidecode,
\* getplatformcode and, for Visual Studio, getvsplatform return a value
NoGeneratorWithoutCodes ==
    \A k \in 1..Len(output) :
        IsImplemented(output[k].item) =>
            /\ getidecode(output[k].solution) # None
            /\ getplatformcode(output[k].solution.platform) # None
            /\ output[k].solution.ide \in {"vs2005", "vs2008", "vs2010"} =>
                   getvsplatform(output[k].solution.platform) # None
            /\ output[k].report # "raised"

(***************************************************************************)
(* The objects of project.pbxproj                                          *)
(***************************************************************************)
\* the identifiers of the objects written to the file
DefinedIdentifiers ==
    {sections.written[i].uuid : i \in 1..Len(sections.written)}

\* C28: every identifier a field of a written object names, and the
\* rootObject, is the identifier of an object written to the same file
ReferencesResolve ==
    pc \in {"xcode", "raised"} =>
        /\ \A i \in 1..Len(sections.written) :
           \A r \in 1..Len(sections.written[i].references) :
               sections.written[i].references[r] \in DefinedIdentifiers
        /\ \A r \in 1..Len(sections.rootObject) :
               sections.rootObject[r] \in DefinedIdentifiers
====
